---------------------------- MODULE Spec2Model ----------------------------
(***************************************************************************)
(* Settings model of the terminal: CascadiaSettings (the container of all  *)
(* profiles), profile resolution for a launch request (GetProfileForArgs),  *)
(* the command line normalizer and the command line cache.                  *)
(*                                                                         *)
(* A command line is a sequence of characters; a character is a one        *)
(* letter string.  Profiles live in one heap of nodes, addressed by their  *)
(* position; a container refers to its profiles by heap position, which    *)
(* plays the role of the object pointer (com_ptr) in the source.           *)
(* callers holds the threads that are inside _getProfileForCommandLine at  *)
(* the same time, each with its position in the function.  page is the     *)
(* terminal page: the settings it refers to, its UI thread, the reload in  *)
(* progress and the connections that are handed to it.                     *)
(***************************************************************************)
EXTENDS Integers, Sequences, FiniteSets, TLC

VARIABLES heap, containers, showDefaults, mutations, call, callers, page

vars == <<heap, containers, showDefaults, mutations, call, callers, page>>

(***************************************************************************)
(* Bounds of the model.                                                    *)
(***************************************************************************)
\* Largest number of profiles a loaded container starts with.
MaxLoaded == 2
\* Largest number of changes made to the containers after the load
\* (CreateNewProfile, DuplicateProfile, Copy, a changed command line).
MaxMutations == 1
\* Largest number of entries of a command line cache: a build that throws
\* leaves its entries behind, and the next build appends to them.
MaxCached == 2 * (MaxLoaded + MaxMutations)

(***************************************************************************)
(* Characters and strings.                                                 *)
(***************************************************************************)
SP == " "
DQ == "\""
PCT == "%"
\* The L'\0' that separates the arguments in a normalized command line.
NUL == "NUL"
\* The default extension handed to SearchPathW, as one character.
EXE == ".exe"

\* A null profile reference, and the outcome of a call that threw.  Heap
\* positions start at 1.
Null == 0
Threw == -1
\* What _normalizeCommandLine yields when it throws: no command line holds
\* this character.
NormalizeThrew == <<"exception">>

SeqRange(s) == {s[i] : i \in 1..Len(s)}

starts_with(str, prefix) ==
    /\ Len(prefix) <= Len(str)
    /\ SubSeq(str, 1, Len(prefix)) = prefix

\* Position of the first occurrence of character c in s at or after i, or 0.
RECURSIVE IndexFrom(_, _, _)
IndexFrom(s, c, i) ==
    IF i > Len(s) THEN 0
    ELSE IF s[i] = c THEN i
    ELSE IndexFrom(s, c, i + 1)

\* Upper case letters and their lower case form (the file system is case
\* insensitive, and keeps the name's true capitalization).
ToLowerChar(c) ==
    CASE c = "A" -> "a"
      [] c = "B" -> "b"
      [] OTHER -> c

ToLower(s) == [i \in 1..Len(s) |-> ToLowerChar(s[i])]

(***************************************************************************)
(* The services of the operating system the normalizer calls.              *)
(***************************************************************************)
\* The process environment: the one variable %v% and its value.
EnvName == <<"v">>
EnvValue == <<"a">>

\* ExpandEnvironmentStringsW: every %name% of a defined variable is replaced
\* by its value, anything else is kept.
RECURSIVE ExpandFrom(_, _)
ExpandFrom(s, i) ==
    IF i > Len(s) THEN <<>>
    ELSE IF s[i] # PCT THEN <<s[i]>> \o ExpandFrom(s, i + 1)
    ELSE LET j == IndexFrom(s, PCT, i + 1)
         IN IF j # 0 /\ SubSeq(s, i + 1, j - 1) = EnvName
            THEN EnvValue \o ExpandFrom(s, j + 1)
            ELSE <<PCT>> \o ExpandFrom(s, i + 1)

ExpandEnvironmentStringsW(s) == ExpandFrom(s, 1)

\* CommandLineToArgvW, argument 0: up to the closing quote when the command
\* line starts with a quote, else up to the first space.  The result is
\* <<argument, position after it>>.
FirstArg(s) ==
    IF Len(s) > 0 /\ s[1] = DQ
    THEN LET j == IndexFrom(s, DQ, 2)
         IN IF j = 0 THEN <<SubSeq(s, 2, Len(s)), Len(s) + 1>>
            ELSE <<SubSeq(s, 2, j - 1), j + 1>>
    ELSE LET j == IndexFrom(s, SP, 1)
         IN IF j = 0 THEN <<s, Len(s) + 1>>
            ELSE <<SubSeq(s, 1, j - 1), j + 1>>

\* CommandLineToArgvW, the arguments after argument 0: spaces outside quotes
\* separate the arguments, the quotes are dropped.  cur is the argument
\* being read (<<>> of one element when one is open), inq whether a quote is
\* open.
RECURSIVE RestArgs(_, _, _, _)
RestArgs(s, i, cur, inq) ==
    IF i > Len(s) THEN cur
    ELSE IF s[i] = DQ
         THEN RestArgs(s, i + 1, IF cur = <<>> THEN <<<<>>>> ELSE cur, ~inq)
    ELSE IF s[i] = SP /\ ~inq
         THEN cur \o RestArgs(s, i + 1, <<>>, FALSE)
    ELSE RestArgs(s, i + 1,
                  IF cur = <<>> THEN <<<<s[i]>>>> ELSE <<Append(cur[1], s[i])>>,
                  inq)

\* The module's own path: argv[0] of an empty command line.
ModuleFileName == <<"/", "w", "t", EXE>>

CommandLineToArgvW(s) ==
    IF s = <<>> THEN <<ModuleFileName>>
    ELSE LET first == FirstArg(s)
         IN <<first[1]>> \o RestArgs(s, first[2], <<>>, FALSE)

\* The files of the machine, by their canonical path.
FileSystem ==
    { <<"/", "a", EXE>>,
      <<"/", "b", SP, "c", EXE>>,
      <<"/", "d", EXE>> }

\* Files SearchPathW finds but std::filesystem::canonical cannot open.
Unreadable == { <<"/", "d", EXE>> }

\* File names SearchPathW rejects with a status other than file-not-found.
InvalidNames == { <<"e">> }

S_OK == "S_OK"
ERROR_FILE_NOT_FOUND == "ERROR_FILE_NOT_FOUND"
ERROR_INVALID_NAME == "ERROR_INVALID_NAME"

\* SearchPathW(nullptr, fileName, L".exe", result): the extension is added to
\* a name without one, a relative name is looked up in the search path (the
\* root directory), an absolute one as it is.
SearchPathW(fileName) ==
    LET withExt == IF fileName # <<>> /\ fileName[Len(fileName)] = EXE
                   THEN fileName ELSE Append(fileName, EXE)
        full == IF fileName # <<>> /\ fileName[1] = "/"
                THEN withExt ELSE <<"/">> \o withExt
    IN IF fileName \in InvalidNames
       THEN [status |-> ERROR_INVALID_NAME, path |-> <<>>]
       ELSE IF ToLower(full) \in FileSystem
       THEN [status |-> S_OK, path |-> full]
       ELSE [status |-> ERROR_FILE_NOT_FOUND, path |-> <<>>]

\* std::filesystem::canonical: the path in its true capitalization; it
\* throws when the file cannot be opened.
canonical(path) ==
    IF ToLower(path) \in Unreadable THEN NormalizeThrew ELSE ToLower(path)


(***************************************************************************)
(* _normalizeCommandLine.                                                  *)
(*                                                                         *)
(* CommandLineToArgvW hands out the arguments back to back in one buffer,  *)
(* each ended by L'\0', and argv[i] points at the start of argument i.     *)
(* ArgvBuffer and ArgvPointers are that buffer and those pointers.         *)
(***************************************************************************)
RECURSIVE ArgvBuffer(_)
ArgvBuffer(args) ==
    IF args = <<>> THEN <<>>
    ELSE Head(args) \o <<NUL>> \o ArgvBuffer(Tail(args))

RECURSIVE ArgvPointers(_, _)
ArgvPointers(args, at) ==
    IF args = <<>> THEN <<>>
    ELSE <<at>> \o ArgvPointers(Tail(args), at + Len(Head(args)) + 1)

\* The end (exclusive) of the zero terminated string that starts at p.
StrEnd(buf, p) == IndexFrom(buf, NUL, p)

\* The zero terminated string that starts at p.
CStr(buf, p) == SubSeq(buf, p, StrEnd(buf, p) - 1)

\* argv[1][-1] = L' '
MergeArgument(buf, argv) == [buf EXCEPT ![argv[2] - 1] = SP]

\* The loop that resolves the executable (for (;;) { ... }).  The result is
\* the state the loop is left in: the buffer, argc, and normalized, which
\* SearchPathW leaves untouched unless it succeeds.
RECURSIVE ResolveExecutable(_, _, _, _)
ResolveExecutable(buf, argv, argc, normalized) ==
    LET found == SearchPathW(CStr(buf, argv[1]))
    IN IF found.status = S_OK
       THEN [buf |-> buf, argc |-> argc, normalized |-> canonical(found.path)]
       ELSE IF argc < 2 \/ found.status # ERROR_FILE_NOT_FOUND
       THEN [buf |-> buf, argc |-> argc, normalized |-> normalized]
       ELSE ResolveExecutable(MergeArgument(buf, argv), argv, argc - 1, normalized)

\* The arguments appended after the executable: normalized.append(beg, end)
\* with beg = argv[1] - 1 and end the end of argv[argc - 1].
RemainingArguments(buf, argv, argc) ==
    IF argc > 1
    THEN SubSeq(buf, argv[2] - 1, StrEnd(buf, argv[argc]) - 1)
    ELSE <<>>

\* The normalized command line, or NormalizeThrew.
_normalizeCommandLine(commandLine) ==
    LET expanded == ExpandEnvironmentStringsW(commandLine)
        args == CommandLineToArgvW(expanded)
        argv == ArgvPointers(args, 1)
        left == ResolveExecutable(ArgvBuffer(args), argv, Len(args), expanded)
    IN IF left.normalized = NormalizeThrew THEN NormalizeThrew
       ELSE left.normalized \o RemainingArguments(left.buf, argv, left.argc)

(***************************************************************************)
(* The command lines of the model, and their normalized forms: the table   *)
(* holds _normalizeCommandLine of each, computed once.                     *)
(***************************************************************************)
\* Command lines set on loaded profiles, and set later by an edit.
ProfileCommandlines ==
    { <<"a">>,
      <<"A", SP, "x">>,
      <<"p">>,
      <<"d">> }

EditedCommandlines == { <<"a", SP, "x">> }

BaseCommandlines == { <<"p", SP, "x">> }

\* Command lines of requests.
RequestCommandlines ==
    { <<"a">>,
      <<"a", SP, "x">>,
      <<"a", SP, "x", SP, "y">>,
      <<DQ, "a", DQ, SP, DQ, "x", DQ>>,
      <<PCT, "v", PCT, SP, "y">>,
      <<"b", SP, "c", SP, "x">>,
      <<"p", "q">>,
      <<"p", SP, "x", SP, "y">>,
      <<"e", SP, "x">>,
      <<"d", SP, "x">> }

CommandLines ==
    ProfileCommandlines \cup EditedCommandlines \cup BaseCommandlines
        \cup RequestCommandlines

Normalized[commandLine \in CommandLines] == _normalizeCommandLine(commandLine)

(***************************************************************************)
(* Profiles.  A node of the heap is one Profile object:                    *)
(*   guid, name, hidden   the profile's identifier, name and hidden flag   *)
(*   origin               its OriginTag                                    *)
(*   parents              the heap positions of its parents, in order      *)
(*   commandline          <<>> when the setting is not set on this node,   *)
(*                        <<value>> when it is                             *)
(*   icon                 the icon set on this node, <<>> when none is     *)
(*   colorSchemeName      the color scheme of the default appearance,      *)
(*                        <<>> when not set on this node, <<name>> else    *)
(*   backgroundImagePath  the background image of the default appearance,  *)
(*                        <<>> when none is set on this node               *)
(*   unfocusedAppearance  <<>> when the node has no unfocused appearance   *)
(*                        of its own, else <<appearance>> with the         *)
(*                        appearance's own colorSchemeName and             *)
(*                        backgroundImagePath                              *)
(***************************************************************************)
OriginUser == "User"
OriginInBox == "InBox"
OriginProfilesDefaults == "ProfilesDefaults"

\* The layered lookup of an inheritable setting: the node's own value, else
\* the first value a parent resolves to, parents in order, depth first.
\* <<>> when no node on the way sets it.
RECURSIVE CommandlineOf(_, _)
RECURSIVE CommandlineOfParents(_, _)
CommandlineOf(h, p) ==
    IF h[p].commandline # <<>> THEN h[p].commandline
    ELSE CommandlineOfParents(h, h[p].parents)

CommandlineOfParents(h, parents) ==
    IF parents = <<>> THEN <<>>
    ELSE LET r == CommandlineOf(h, Head(parents))
         IN IF r # <<>> THEN r ELSE CommandlineOfParents(h, Tail(parents))

\* profile.Commandline(): the resolved value, the empty string when unset.
Commandline(h, p) ==
    LET r == CommandlineOf(h, p) IN IF r = <<>> THEN <<>> ELSE r[1]

\* profile.HasCommandline()
HasCommandline(h, p) == h[p].commandline # <<>>

\* profile.CommandlineOverrideSource(): the parent the value is inherited
\* through, Null when no parent resolves it.
RECURSIVE OverrideSourceAmong(_, _)
OverrideSourceAmong(h, parents) ==
    IF parents = <<>> THEN Null
    ELSE IF CommandlineOf(h, Head(parents)) # <<>> THEN Head(parents)
    ELSE OverrideSourceAmong(h, Tail(parents))

CommandlineOverrideSource(h, p) == OverrideSourceAmong(h, h[p].parents)

\* The node an inheritable setting of p is read from: p when p sets it,
\* else the first node found through the parents, in order, depth first.
\* Null when no node on the way sets it.
RECURSIVE SettingOwner(_, _, _)
RECURSIVE SettingOwnerAmong(_, _, _)
SettingOwner(h, p, setting) ==
    IF h[p][setting] # <<>> THEN p
    ELSE SettingOwnerAmong(h, h[p].parents, setting)

SettingOwnerAmong(h, parents, setting) ==
    IF parents = <<>> THEN Null
    ELSE LET owner == SettingOwner(h, Head(parents), setting)
         IN IF owner # Null THEN owner
            ELSE SettingOwnerAmong(h, Tail(parents), setting)

\* The value of an inheritable setting of p, <<>> when unset.
Resolve(h, p, setting) ==
    LET owner == SettingOwner(h, p, setting)
    IN IF owner = Null THEN <<>> ELSE h[owner][setting]

\* The color scheme an appearance uses when none is set.
DefaultColorSchemeName == "Campbell"

\* profile.Icon()
Icon(h, p) == Resolve(h, p, "icon")

\* profile.DefaultAppearance().ColorSchemeName()
ColorSchemeName(h, p) ==
    LET name == Resolve(h, p, "colorSchemeName")
    IN IF name = <<>> THEN DefaultColorSchemeName ELSE name[1]

\* profile.DefaultAppearance().BackgroundImagePath()
BackgroundImagePath(h, p) == Resolve(h, p, "backgroundImagePath")

\* profile.UnfocusedAppearance(): the node whose unfocused appearance the
\* profile uses, Null when it has none.  The parent of an unfocused
\* appearance is the default appearance of the node that owns it.
UnfocusedAppearance(h, p) == SettingOwner(h, p, "unfocusedAppearance")

\* profile.UnfocusedAppearance().ColorSchemeName(), u the owner.
UnfocusedColorSchemeName(h, u) ==
    IF h[u].unfocusedAppearance[1].colorSchemeName # <<>>
    THEN h[u].unfocusedAppearance[1].colorSchemeName[1]
    ELSE ColorSchemeName(h, u)

\* profile.UnfocusedAppearance().BackgroundImagePath(), u the owner.
UnfocusedBackgroundImagePath(h, u) ==
    IF h[u].unfocusedAppearance[1].backgroundImagePath # <<>>
    THEN h[u].unfocusedAppearance[1].backgroundImagePath
    ELSE BackgroundImagePath(h, u)

\* appearance.ExpandedBackgroundImagePath()
ExpandedBackgroundImagePath(path) == ExpandEnvironmentStringsW(path)

\* winrt::Windows::Foundation::Uri: the constructor accepts a string with
\* a scheme, a colon after at least one character, and throws on any other.
COLON == ":"

UriParses(s) == \E i \in 2..Len(s) : s[i] = COLON

\* Utils::GuidToString and Utils::GuidFromString.  A guid is a number here;
\* its string form stands for the 38 characters "{xxxxxxxx-...}".
Guids == 0..(MaxLoaded + MaxMutations + 1)

GuidToString(g) == "{" \o ToString(g) \o "}"

\* name.size() == 38 && name[0] == L'{'
LooksLikeGuid(name) == \E g \in Guids : name = GuidToString(g)

GuidFromString(name) == CHOOSE g \in Guids : name = GuidToString(g)

(***************************************************************************)
(* Lookups of a container.                                                 *)
(***************************************************************************)
\* The first element of the list among the positions hits, or Null.
FirstOf(list, hits) ==
    IF hits = {} THEN Null
    ELSE list[CHOOSE i \in hits : \A j \in hits : i <= j]

\* The positions of list whose profile has the value in the field.
Positions(h, list, field, value) ==
    {i \in 1..Len(list) : h[list[i]][field] = value}

FindProfile(h, settings, guid) ==
    FirstOf(settings.allProfiles,
            Positions(h, settings.allProfiles, "guid", guid))

\* A name scan over the active profiles only.
NameLookupActive(h, settings, name) ==
    FirstOf(settings.activeProfiles,
            Positions(h, settings.activeProfiles, "name", name))

NameLookup(h, settings, name) ==
    FirstOf(settings.allProfiles,
            Positions(h, settings.allProfiles, "name", name))

\* A lookup that compares the names before it tries the identifier.
GetProfileByNameFirst(h, settings, name) ==
    IF name = "" THEN Null
    ELSE IF NameLookup(h, settings, name) # Null
         THEN NameLookup(h, settings, name)
         ELSE IF LooksLikeGuid(name)
              THEN FindProfile(h, settings, GuidFromString(name))
              ELSE Null

GetProfileByName(h, settings, name) ==
    IF name = "" THEN Null
    ELSE IF LooksLikeGuid(name)
              /\ FindProfile(h, settings, GuidFromString(name)) # Null
         THEN FindProfile(h, settings, GuidFromString(name))
         ELSE NameLookup(h, settings, name)

GetProfileByIndex(settings, index) ==
    IF index < Len(settings.activeProfiles)
    THEN settings.activeProfiles[index + 1]
    ELSE Null

(***************************************************************************)
(* _getProfileForCommandLine and its cache.  An entry of the cache is      *)
(* <<normalized command line, profile>>.                                   *)
(***************************************************************************)
\* The loop of the call_once lambda: one entry per profile with a non-empty
\* command line, appended to what the vector holds.  A throwing
\* _normalizeCommandLine ends it and leaves the entries appended so far.
RECURSIVE AppendCommandLines(_, _, _)
RECURSIVE EmplaceBack(_, _, _, _)
AppendCommandLines(h, list, cache) ==
    IF list = <<>> THEN [threw |-> FALSE, cache |-> cache]
    ELSE IF Commandline(h, Head(list)) = <<>>
    THEN AppendCommandLines(h, Tail(list), cache)
    ELSE EmplaceBack(h, list, cache, Normalized[Commandline(h, Head(list))])

\* _commandLinesCache.emplace_back(normalized, profile), and the rest of
\* the loop.
EmplaceBack(h, list, cache, normalized) ==
    IF normalized = NormalizeThrew
    THEN [threw |-> TRUE, cache |-> cache]
    ELSE AppendCommandLines(h, Tail(list),
                            Append(cache, <<normalized, Head(list)>>))

\* A comparison that also puts an entry before the entries of its length.
NotShorterThan(lhs, rhs) == Len(lhs[1]) >= Len(rhs[1])

\* The comparison of the sort: lhs.first.size() > rhs.first.size()
LongerThan(lhs, rhs) == Len(lhs[1]) > Len(rhs[1])

\* std::stable_sort with LongerThan: entries the comparison does not order
\* keep their relative order.
RECURSIVE InsertStable(_, _)
InsertStable(sorted, e) ==
    IF sorted = <<>> THEN <<e>>
    ELSE IF LongerThan(e, Head(sorted)) THEN <<e>> \o sorted
    ELSE <<Head(sorted)>> \o InsertStable(Tail(sorted), e)

RECURSIVE stable_sort(_)
stable_sort(cache) ==
    IF cache = <<>> THEN <<>>
    ELSE InsertStable(stable_sort(SubSeq(cache, 1, Len(cache) - 1)),
                      cache[Len(cache)])

\* A comparison that also skips the entries as long as the needle.
NotShorterThanNeedle(entry, needle) == Len(entry[1]) >= Len(needle)

\* The comparison of the binary search: lhs.first.size() > rhs.size()
LongerThanNeedle(entry, needle) == Len(entry[1]) > Len(needle)

\* std::lower_bound over [first, first + count), positions counted from 0.
RECURSIVE lower_bound(_, _, _, _)
lower_bound(cache, needle, first, count) ==
    IF count = 0 THEN first
    ELSE LET step == count \div 2
             it == first + step
         IN IF LongerThanNeedle(cache[it + 1], needle)
            THEN lower_bound(cache, needle, it + 1, count - step - 1)
            ELSE lower_bound(cache, needle, first, step)

\* for (; it != end; ++it) if (til::starts_with(needle, it->first)) return
RECURSIVE ScanForPrefix(_, _, _)
ScanForPrefix(cache, needle, it) ==
    IF it = Len(cache) THEN Null
    ELSE IF starts_with(needle, cache[it + 1][1]) THEN cache[it + 1][2]
    ELSE ScanForPrefix(cache, needle, it + 1)

SearchCache(cache, needle) ==
    ScanForPrefix(cache, needle, lower_bound(cache, needle, 0, Len(cache)))

\* What std::call_once leaves, given what the loop of the lambda did: the
\* flag stays unset when the lambda throws.
CallOnce(filled) ==
    IF filled.threw
    THEN [threw |-> TRUE, once |-> FALSE, cache |-> filled.cache]
    ELSE [threw |-> FALSE, once |-> TRUE, cache |-> stable_sort(filled.cache)]

BuildCache(h, settings) ==
    IF settings.commandLinesCacheOnce
    THEN [threw |-> FALSE, once |-> TRUE, cache |-> settings.commandLinesCache]
    ELSE CallOnce(AppendCommandLines(h, settings.allProfiles,
                                     settings.commandLinesCache))

\* The search of the cache as built, for the needle as normalized.
SearchBuilt(built, needle) ==
    [profile |-> IF built.threw \/ needle = NormalizeThrew THEN Threw
                 ELSE SearchCache(built.cache, needle),
     once |-> built.once,
     cache |-> built.cache]

\* The profile found (or Null, or Threw) and the cache as the call leaves it.
\* The needle is not normalized when building the cache threw.
_getProfileForCommandLine(h, settings, commandLine) ==
    SearchBuilt(BuildCache(h, settings), Normalized[commandLine])

(***************************************************************************)
(* GetProfileForArgs.  A request (NewTerminalArgs) is                      *)
(*   present       FALSE for a null NewTerminalArgs                        *)
(*   Profile       the profile name, "" when not given                     *)
(*   ProfileIndex  <<>> when not given, <<index>> (an int32) when given    *)
(*   Commandline   the command line, <<>> when not given                   *)
(***************************************************************************)
NullArgs ==
    [present |-> FALSE, Profile |-> "", ProfileIndex |-> <<>>, Commandline |-> <<>>]

\* gsl::narrow<uint32_t> of an int32 throws for a negative value.
NarrowThrows(index) == index < 0

\* A tail that returns the first listed profile, not the default profile.
FallbackFirstProfile(h, settings, args, feature) ==
    IF feature /\ args.present /\ args.Commandline # <<>>
    THEN settings.baseLayerProfile
    ELSE settings.allProfiles[1]

\* A tail with the two cases of the feature exchanged: profiles.defaults
\* without a command line, the default profile with one.
FallbackDefaultsWithoutCommandline(h, settings, args, feature) ==
    IF feature
    THEN IF ~args.present \/ args.Commandline = <<>>
         THEN settings.baseLayerProfile
         ELSE FindProfile(h, settings, settings.defaultProfile)
    ELSE FindProfile(h, settings, settings.defaultProfile)

\* A tail that does not look at the feature.
FallbackWithoutFeature(h, settings, args, feature) ==
    IF ~args.present \/ args.Commandline = <<>>
    THEN FindProfile(h, settings, settings.defaultProfile)
    ELSE settings.baseLayerProfile

\* The tail of GetProfileForArgs, after no step matched.
Fallback(h, settings, args, feature) ==
    IF feature
    THEN IF ~args.present \/ args.Commandline = <<>>
         THEN FindProfile(h, settings, settings.defaultProfile)
         ELSE settings.baseLayerProfile
    ELSE FindProfile(h, settings, settings.defaultProfile)

\* The steps of GetProfileForArgs, given what the name step (byName) and the
\* command line step (found) yield when they are reached: the step that
\* decides the request, "name", "index", "commandline", "fallback" or
\* "threw", the profile returned and the cache as the call leaves it.
ResolveArgs(h, settings, args, feature, byName, found) ==
    IF args.present /\ args.Profile # "" /\ byName # Null
    THEN [step |-> "name", profile |-> byName,
          once |-> settings.commandLinesCacheOnce,
          cache |-> settings.commandLinesCache]
    ELSE IF args.present /\ args.ProfileIndex # <<>>
              /\ NarrowThrows(args.ProfileIndex[1])
    THEN [step |-> "threw", profile |-> Threw,
          once |-> settings.commandLinesCacheOnce,
          cache |-> settings.commandLinesCache]
    ELSE IF args.present /\ args.ProfileIndex # <<>>
              /\ GetProfileByIndex(settings, args.ProfileIndex[1]) # Null
    THEN [step |-> "index",
          profile |-> GetProfileByIndex(settings, args.ProfileIndex[1]),
          once |-> settings.commandLinesCacheOnce,
          cache |-> settings.commandLinesCache]
    ELSE IF args.present /\ args.Commandline # <<>>
    THEN IF found.profile = Threw
         THEN [step |-> "threw", profile |-> Threw,
               once |-> found.once, cache |-> found.cache]
         ELSE IF found.profile # Null
         THEN [step |-> "commandline", profile |-> found.profile,
               once |-> found.once, cache |-> found.cache]
         ELSE [step |-> "fallback",
               profile |-> Fallback(h, settings, args, feature),
               once |-> found.once, cache |-> found.cache]
    ELSE [step |-> "fallback",
          profile |-> Fallback(h, settings, args, feature),
          once |-> settings.commandLinesCacheOnce,
          cache |-> settings.commandLinesCache]

\* A resolution that tries the index before the name.
GetProfileForArgsIndexFirst(h, settings, args, feature) ==
    IF /\ args.present
       /\ args.ProfileIndex # <<>>
       /\ ~NarrowThrows(args.ProfileIndex[1])
       /\ GetProfileByIndex(settings, args.ProfileIndex[1]) # Null
    THEN [step |-> "index",
          profile |-> GetProfileByIndex(settings, args.ProfileIndex[1]),
          once |-> settings.commandLinesCacheOnce,
          cache |-> settings.commandLinesCache]
    ELSE ResolveArgs(h, settings, args, feature,
                     GetProfileByName(h, settings, args.Profile),
                     IF args.Commandline = <<>> THEN Null
                     ELSE _getProfileForCommandLine(h, settings,
                                                    args.Commandline))

GetProfileForArgs(h, settings, args, feature) ==
    ResolveArgs(h, settings, args, feature,
                GetProfileByName(h, settings, args.Profile),
                IF args.Commandline = <<>> THEN Null
                ELSE _getProfileForCommandLine(h, settings, args.Commandline))

(***************************************************************************)
(* CreateNewProfile, DuplicateProfile, Copy.                               *)
(***************************************************************************)
NameTaken(h, settings, name) ==
    \E i \in 1..Len(settings.allProfiles) : h[settings.allProfiles[i]].name = name

\* A CreateNewProfile that takes its first candidate unchecked.
FirstProfileName(h, settings, candidateIndex, count) ==
    "Profile " \o ToString(count + candidateIndex)

\* The loop of CreateNewProfile: the candidates are "Profile count+0",
\* "Profile count+1", ... with count = size + 1; the first free one is
\* taken, the last one when none is free.
RECURSIVE NewProfileName(_, _, _, _)
NewProfileName(h, settings, candidateIndex, count) ==
    LET newName == "Profile " \o ToString(count + candidateIndex)
    IN IF ~NameTaken(h, settings, newName) \/ candidateIndex + 1 >= count
       THEN newName
       ELSE NewProfileName(h, settings, candidateIndex + 1, count)

\* RS_(L"CopySuffix")
CopySuffix == "Copy"

\* The loop of DuplicateProfile: "name (Copy)", then "name (Copy 2)", ...
RECURSIVE DuplicateName(_, _, _, _, _, _)
DuplicateName(h, settings, sourceName, newName, candidateIndex, count) ==
    IF candidateIndex >= count \/ ~NameTaken(h, settings, newName)
    THEN newName
    ELSE DuplicateName(h, settings, sourceName,
             sourceName \o " (" \o CopySuffix \o " "
                 \o ToString(candidateIndex + 2) \o ")",
             candidateIndex + 1, count)

\* CoCreateGuid: an identifier no profile has.
NewGuid(h) ==
    1 + (CHOOSE g \in {h[p].guid : p \in 1..Len(h)} :
             \A p \in 1..Len(h) : h[p].guid <= g)

CreateChild(h, parent) ==
    [guid |-> h[parent].guid,
     name |-> h[parent].name,
     hidden |-> h[parent].hidden,
     origin |-> OriginUser,
     parents |-> <<parent>>,
     commandline |-> <<>>,
     icon |-> <<>>,
     colorSchemeName |-> <<>>,
     backgroundImagePath |-> <<>>,
     unfocusedAppearance |-> <<>>]

_createNewProfile(h, settings, name) ==
    [CreateChild(h, settings.baseLayerProfile) EXCEPT
        !.guid = NewGuid(h), !.name = name]

\* A profile that is not null and whose origin is profiles.defaults.
hasProfilesDefaultsOrigin(h, p) ==
    p # Null /\ h[p].origin = OriginProfilesDefaults

\* isProfilesDefaultsOrigin of DuplicateProfile: true of a non-null profile
\* whose origin is NOT profiles.defaults.
isProfilesDefaultsOrigin(h, p) ==
    p # Null /\ h[p].origin # OriginProfilesDefaults

\* NEEDS_DUPLICATION(Commandline)
NeedsDuplication(h, source) ==
    \/ HasCommandline(h, source)
    \/ isProfilesDefaultsOrigin(h, CommandlineOverrideSource(h, source))

\* DUPLICATE_SETTING_MACRO of a setting: the value set on the duplicate,
\* <<>> when the setting is left unset.
DuplicateSetting(h, source, setting) ==
    IF \/ h[source][setting] # <<>>
       \/ isProfilesDefaultsOrigin(h,
              SettingOwnerAmong(h, h[source].parents, setting))
    THEN Resolve(h, source, setting)
    ELSE <<>>

\* The profile DuplicateProfile builds from source.
Duplicated(h, settings, source) ==
    LET newName == DuplicateName(h, settings, h[source].name,
                       h[source].name \o " (" \o CopySuffix \o ")",
                       0, Len(settings.allProfiles) + 1)
        child == _createNewProfile(h, settings, newName)
        withCommandline ==
            IF NeedsDuplication(h, source)
            THEN [child EXCEPT !.commandline = <<Commandline(h, source)>>]
            ELSE child
    IN [withCommandline EXCEPT
           !.icon = DuplicateSetting(h, source, "icon"),
           !.colorSchemeName = DuplicateSetting(h, source, "colorSchemeName"),
           !.backgroundImagePath =
               DuplicateSetting(h, source, "backgroundImagePath"),
           !.unfocusedAppearance =
               DuplicateSetting(h, source, "unfocusedAppearance")]

\* Profile::CopyInheritanceGraph: the clone of node p and, before it, of the
\* parents not cloned yet; visited maps a cloned node to its clone.
RECURSIVE CopyInheritanceGraph(_, _, _)
RECURSIVE CopyParents(_, _, _, _)
CopyInheritanceGraph(h, visited, p) ==
    IF p \in DOMAIN visited
    THEN [heap |-> h, visited |-> visited, clone |-> visited[p]]
    ELSE LET up == CopyParents(h, visited, h[p].parents, <<>>)
             clone == Len(up.heap) + 1
         IN [heap |-> Append(up.heap, [h[p] EXCEPT !.parents = up.clones]),
             visited |-> up.visited @@ (p :> clone),
             clone |-> clone]

CopyParents(h, visited, parents, clones) ==
    IF parents = <<>>
    THEN [heap |-> h, visited |-> visited, clones |-> clones]
    ELSE LET one == CopyInheritanceGraph(h, visited, Head(parents))
         IN CopyParents(one.heap, one.visited, Tail(parents),
                        Append(clones, one.clone))

\* Profile::CopyInheritanceGraphs: the clones of the listed profiles.
RECURSIVE CopyInheritanceGraphs(_, _, _, _)
CopyInheritanceGraphs(h, visited, source, target) ==
    IF source = <<>>
    THEN [heap |-> h, visited |-> visited, target |-> target]
    ELSE LET one == CopyInheritanceGraph(h, visited, Head(source))
         IN CopyInheritanceGraphs(one.heap, one.visited, Tail(source),
                                  Append(target, one.clone))

\* The elements of a list of profiles that are not hidden, in order.
RECURSIVE NotHidden(_, _)
NotHidden(h, list) ==
    IF list = <<>> THEN <<>>
    ELSE IF h[Head(list)].hidden THEN NotHidden(h, Tail(list))
    ELSE <<Head(list)>> \o NotHidden(h, Tail(list))

\* A copy whose profiles.defaults is the source's, not a clone of it.
CopyOfSharingDefaults(h, settings) ==
    LET base == settings.baseLayerProfile
        all == CopyInheritanceGraphs(h, (base :> base),
                                     settings.allProfiles, <<>>)
    IN [heap |-> all.heap,
        settings |-> [baseLayerProfile |-> base,
                      allProfiles |-> all.target,
                      activeProfiles |-> NotHidden(all.heap, all.target),
                      defaultProfile |-> settings.defaultProfile,
                      warnings |-> settings.warnings,
                      globals |-> settings.globals,
                      commandLinesCacheOnce |-> FALSE,
                      commandLinesCache |-> <<>>]]

\* A copy that clones the listed profiles with a map of its own, not the
\* one the clone of profiles.defaults was made with.
CopyOfWithTwoMaps(h, settings) ==
    LET base == CopyInheritanceGraph(h, << >>, settings.baseLayerProfile)
        all == CopyInheritanceGraphs(base.heap, << >>,
                                     settings.allProfiles, <<>>)
    IN [heap |-> all.heap,
        settings |-> [baseLayerProfile |-> base.clone,
                      allProfiles |-> all.target,
                      activeProfiles |-> NotHidden(all.heap, all.target),
                      defaultProfile |-> settings.defaultProfile,
                      warnings |-> settings.warnings,
                      globals |-> settings.globals,
                      commandLinesCacheOnce |-> FALSE,
                      commandLinesCache |-> <<>>]]

\* A copy that takes the command-line cache of the source along.
CopyOfWithCache(h, settings) ==
    LET base == CopyInheritanceGraph(h, << >>, settings.baseLayerProfile)
        all == CopyInheritanceGraphs(base.heap, base.visited,
                                     settings.allProfiles, <<>>)
    IN [heap |-> all.heap,
        settings |-> [baseLayerProfile |-> base.clone,
                      allProfiles |-> all.target,
                      activeProfiles |-> NotHidden(all.heap, all.target),
                      defaultProfile |-> settings.defaultProfile,
                      warnings |-> settings.warnings,
                      globals |-> settings.globals,
                      commandLinesCacheOnce |-> settings.commandLinesCacheOnce,
                      commandLinesCache |-> settings.commandLinesCache]]

\* The heap after Copy and the container Copy returns.
CopyOf(h, settings) ==
    LET base == CopyInheritanceGraph(h, << >>, settings.baseLayerProfile)
        all == CopyInheritanceGraphs(base.heap, base.visited,
                                     settings.allProfiles, <<>>)
    IN [heap |-> all.heap,
        settings |-> [baseLayerProfile |-> base.clone,
                      allProfiles |-> all.target,
                      activeProfiles |-> NotHidden(all.heap, all.target),
                      defaultProfile |-> settings.defaultProfile,
                      warnings |-> settings.warnings,
                      globals |-> settings.globals,
                      commandLinesCacheOnce |-> FALSE,
                      commandLinesCache |-> <<>>]]

(***************************************************************************)
(* Validation.  The global settings of a container are                     *)
(*   colorSchemes         the names of the color schemes                   *)
(*   keybindingsWarnings  the warnings of the action map's construction    *)
(*   commands             the commands of the action map's name map, each  *)
(*                        with its nested commands, the scheme name of its *)
(*                        setColorScheme arguments (<<>> for any other     *)
(*                        action) and what it iterates on                  *)
(*   unparsedDefaultProfile  the default profile the settings file         *)
(*                        configures, <<identifier>>, <<>> when none       *)
(***************************************************************************)
UnknownColorScheme == "UnknownColorScheme"
InvalidBackgroundImage == "InvalidBackgroundImage"
InvalidIcon == "InvalidIcon"
AtLeastOneKeybindingWarning == "AtLeastOneKeybindingWarning"
InvalidColorSchemeInCmd == "InvalidColorSchemeInCmd"
TooManyKeysForChord == "TooManyKeysForChord"
MissingRequiredParameter == "MissingRequiredParameter"

IterateOnNone == "None"
IterateOnColorSchemes == "ColorSchemes"

\* _validateAllSchemesExist, the loop: the heap after the profiles of list
\* were visited, and whether an appearance named a scheme that is missing.
RECURSIVE ClearUnknownSchemes(_, _, _, _)
ClearUnknownSchemes(h, colorSchemes, list, foundInvalidScheme) ==
    IF list = <<>>
    THEN [heap |-> h, foundInvalidScheme |-> foundInvalidScheme]
    ELSE LET profile == Head(list)
             unfocused == UnfocusedAppearance(h, profile)
             badDefault == ColorSchemeName(h, profile) \notin colorSchemes
             h1 == IF badDefault
                   THEN [h EXCEPT ![profile].colorSchemeName = <<>>]
                   ELSE h
             badUnfocused ==
                 /\ unfocused # Null
                 /\ UnfocusedColorSchemeName(h1, unfocused) \notin colorSchemes
             h2 == IF badUnfocused
                   THEN [h1 EXCEPT ![unfocused].unfocusedAppearance[1]
                                        .colorSchemeName = <<>>]
                   ELSE h1
         IN ClearUnknownSchemes(h2, colorSchemes, Tail(list),
                foundInvalidScheme \/ badDefault \/ badUnfocused)

\* One warning for every profile whose appearance names a missing scheme.
WarnPerProfile(h, colorSchemes, list, warnings) ==
    warnings \o [i \in 1..Cardinality({j \in 1..Len(list) :
                       ColorSchemeName(h, list[j]) \notin colorSchemes})
                    |-> UnknownColorScheme]

\* The warnings after the loop of _validateAllSchemesExist.
WarnOnce(h, colorSchemes, list, warnings) ==
    IF ClearUnknownSchemes(h, colorSchemes, list, FALSE).foundInvalidScheme
    THEN Append(warnings, UnknownColorScheme)
    ELSE warnings

_validateAllSchemesExist(h, settings) ==
    [heap |-> ClearUnknownSchemes(h, settings.globals.colorSchemes,
                                  settings.allProfiles, FALSE).heap,
     warnings |-> WarnOnce(h, settings.globals.colorSchemes,
                           settings.allProfiles, settings.warnings)]

\* A background image path that is set and is not a resource locator.
InvalidPath(path) ==
    /\ ExpandedBackgroundImagePath(path) # <<>>
    /\ ~UriParses(ExpandedBackgroundImagePath(path))

\* An icon of any length that is not a resource locator.
InvalidIconOfAnyLength(icon) ==
    icon # <<>> /\ ~UriParses(ExpandEnvironmentStringsW(icon))

\* An icon longer than an emoji or a symbol that is not a resource locator.
InvalidIconPath(icon) ==
    Len(icon) > 2 /\ ~UriParses(ExpandEnvironmentStringsW(icon))

\* _validateMediaResources, the loop.
RECURSIVE ClearInvalidMedia(_, _, _, _)
ClearInvalidMedia(h, list, invalidBackground, invalidIcon) ==
    IF list = <<>>
    THEN [heap |-> h, invalidBackground |-> invalidBackground,
          invalidIcon |-> invalidIcon]
    ELSE LET profile == Head(list)
             badDefault == InvalidPath(BackgroundImagePath(h, profile))
             h1 == IF badDefault
                   THEN [h EXCEPT ![profile].backgroundImagePath = <<>>]
                   ELSE h
             unfocused == UnfocusedAppearance(h1, profile)
             badUnfocused ==
                 /\ unfocused # Null
                 /\ InvalidPath(UnfocusedBackgroundImagePath(h1, unfocused))
             h2 == IF badUnfocused
                   THEN [h1 EXCEPT ![unfocused].unfocusedAppearance[1]
                                        .backgroundImagePath = <<>>]
                   ELSE h1
             badIcon == InvalidIconPath(Icon(h2, profile))
             h3 == IF badIcon THEN [h2 EXCEPT ![profile].icon = <<>>] ELSE h2
         IN ClearInvalidMedia(h3, Tail(list),
                invalidBackground \/ badDefault \/ badUnfocused,
                invalidIcon \/ badIcon)

\* A media pass that records the icons before the background images.
_validateMediaResourcesIconFirst(h, settings) ==
    LET done == ClearInvalidMedia(h, settings.allProfiles, FALSE, FALSE)
        icon == IF done.invalidIcon
                THEN Append(settings.warnings, InvalidIcon)
                ELSE settings.warnings
    IN [heap |-> done.heap,
        warnings |-> IF done.invalidBackground
                     THEN Append(icon, InvalidBackgroundImage)
                     ELSE icon]

_validateMediaResources(h, settings) ==
    LET done == ClearInvalidMedia(h, settings.allProfiles, FALSE, FALSE)
        background == IF done.invalidBackground
                      THEN Append(settings.warnings, InvalidBackgroundImage)
                      ELSE settings.warnings
    IN [heap |-> done.heap,
        warnings |-> IF done.invalidIcon
                     THEN Append(background, InvalidIcon)
                     ELSE background]

\* A keybinding pass that appends the marker after the warnings, and also
\* when there are none.
_validateKeybindingsMarkerLast(settings) ==
    Append(settings.warnings \o settings.globals.keybindingsWarnings,
           AtLeastOneKeybindingWarning)

\* _validateKeybindings: the warnings after it.
_validateKeybindings(settings) ==
    IF settings.globals.keybindingsWarnings # <<>>
    THEN Append(settings.warnings, AtLeastOneKeybindingWarning)
             \o settings.globals.keybindingsWarnings
    ELSE settings.warnings

\* A check that does not look into nested commands.
_hasInvalidColorSchemeNotNested(globals, command) ==
    /\ command.setColorSchemeArgs # <<>>
    /\ command.iterateOn # IterateOnColorSchemes
    /\ command.setColorSchemeArgs[1] \notin globals.colorSchemes

RECURSIVE _hasInvalidColorScheme(_, _)
_hasInvalidColorScheme(globals, command) ==
    IF command.nestedCommands # <<>>
    THEN \E i \in 1..Len(command.nestedCommands) :
            _hasInvalidColorScheme(globals, command.nestedCommands[i])
    ELSE /\ command.setColorSchemeArgs # <<>>
         /\ command.iterateOn # IterateOnColorSchemes
         /\ command.setColorSchemeArgs[1] \notin globals.colorSchemes

\* _validateColorSchemesInCommands: the warnings after it.
_validateColorSchemesInCommands(settings) ==
    IF \E i \in 1..Len(settings.globals.commands) :
          _hasInvalidColorScheme(settings.globals, settings.globals.commands[i])
    THEN Append(settings.warnings, InvalidColorSchemeInCmd)
    ELSE settings.warnings

\* _validateSettings: the heap and the warnings of the container after the
\* four passes.
_validateSettings(h, settings) ==
    LET schemes == _validateAllSchemesExist(h, settings)
        media == _validateMediaResources(schemes.heap,
                     [settings EXCEPT !.warnings = schemes.warnings])
        keys == _validateKeybindings(
                     [settings EXCEPT !.warnings = media.warnings])
    IN [heap |-> media.heap,
        warnings |-> _validateColorSchemesInCommands(
                         [settings EXCEPT !.warnings = keys])]

\* UpdateColorSchemeReferences, the loop over the profiles.
RECURSIVE RenameInProfiles(_, _, _, _)
RenameInProfiles(h, list, oldName, newName) ==
    IF list = <<>> THEN h
    ELSE LET profile == Head(list)
             h1 == IF h[profile].colorSchemeName = <<oldName>>
                   THEN [h EXCEPT ![profile].colorSchemeName = <<newName>>]
                   ELSE h
             unfocused == UnfocusedAppearance(h1, profile)
             h2 == IF /\ unfocused # Null
                      /\ h1[unfocused].unfocusedAppearance[1].colorSchemeName
                             = <<oldName>>
                   THEN [h1 EXCEPT ![unfocused].unfocusedAppearance[1]
                                        .colorSchemeName = <<newName>>]
                   ELSE h1
         IN RenameInProfiles(h2, Tail(list), oldName, newName)

\* UpdateColorSchemeReferences: the heap after it.
UpdateColorSchemeReferencesOf(h, settings, oldName, newName) ==
    LET base == settings.baseLayerProfile
        h1 == IF base # Null /\ h[base].colorSchemeName = <<oldName>>
              THEN [h EXCEPT ![base].colorSchemeName = <<newName>>]
              ELSE h
    IN RenameInProfiles(h1, settings.allProfiles, oldName, newName)

(***************************************************************************)
(* The inputs of the model.                                                *)
(***************************************************************************)
\* Names of loaded profiles.  The second is the string form of the
\* identifier of the second loaded profile.
ProfileNames == {"A", GuidToString(2)}

Optional(S) == {<<>>} \cup {<<x>> : x \in S}

\* Requests that combine a name, an index and a command line.
CombinedRequests ==
    [present : {TRUE},
     Profile : {"", "A", GuidToString(2), "N"},
     ProfileIndex : Optional({-1, 0, 1, MaxLoaded + MaxMutations}),
     Commandline : {<<>>, <<"a", SP, "x", SP, "y">>}]

\* Requests that carry a command line only.
CommandlineRequests ==
    [present : {TRUE}, Profile : {""}, ProfileIndex : {<<>>},
     Commandline : RequestCommandlines]

Requests == {NullArgs} \cup CombinedRequests \cup CommandlineRequests

(***************************************************************************)
(* The state after a successful load: the heap holds profiles.defaults at  *)
(* position 1 and the loaded profiles after it, each a child of            *)
(* profiles.defaults; the default profile is an active profile.            *)
(***************************************************************************)
BaseLayer == 1

BaseNode(cmd, hidden) ==
    [guid |-> 0, name |-> "Defaults", hidden |-> hidden,
     origin |-> OriginProfilesDefaults, parents |-> <<>>, commandline |-> cmd,
     icon |-> <<>>, colorSchemeName |-> <<>>, backgroundImagePath |-> <<>>,
     unfocusedAppearance |-> <<>>]

LoadedNode(i, name, hidden, cmd) ==
    [guid |-> i, name |-> name, hidden |-> hidden,
     origin |-> OriginUser, parents |-> <<BaseLayer>>, commandline |-> cmd,
     icon |-> <<>>, colorSchemeName |-> <<>>, backgroundImagePath |-> <<>>,
     unfocusedAppearance |-> <<>>]

\* Loaded profiles that differ in name and hidden flag.
NamedProfiles(n) ==
    { [i \in 1..n |->
          LoadedNode(i, names[i], hidden[i],
                     IF i = 1 THEN << <<"a", SP, "x">> >> ELSE << <<"a">> >>)] :
      names \in [1..n -> ProfileNames], hidden \in [1..n -> BOOLEAN] }

\* Loaded profiles that differ in their command line.
CommandlineProfiles(n) ==
    { [i \in 1..n |->
          LoadedNode(i, "P" \o ToString(i), FALSE, cmds[i])] :
      cmds \in [1..n -> Optional(ProfileCommandlines)] }

\* A loaded profile that is the child of an inbox profile and of
\* profiles.defaults.
InboxNode(i, cmd) ==
    [guid |-> i, name |-> "P" \o ToString(i), hidden |-> FALSE,
     origin |-> OriginInBox, parents |-> <<>>, commandline |-> cmd,
     icon |-> <<>>, colorSchemeName |-> <<>>, backgroundImagePath |-> <<>>,
     unfocusedAppearance |-> <<>>]

Inbox == 2

\* Heaps with an inbox profile at position 2, the parent of the first (and
\* possibly of the second) listed profile, before or after profiles.defaults.
LayeredHeaps ==
    { <<BaseNode(cmd, FALSE), InboxNode(1, << <<"a">> >>)>> \o listed :
        cmd \in Optional(BaseCommandlines),
        listed \in
          { << [LoadedNode(1, "P1", FALSE, <<>>) EXCEPT !.parents = first] >> :
              first \in {<<BaseLayer, Inbox>>, <<Inbox, BaseLayer>>} }
          \cup
          { << [LoadedNode(1, "P1", FALSE, <<>>) EXCEPT !.parents = first],
               [LoadedNode(2, "P2", FALSE, << <<"p">> >>)
                   EXCEPT !.parents = second] >> :
              first \in {<<BaseLayer, Inbox>>, <<Inbox, BaseLayer>>},
              second \in {<<BaseLayer>>, <<Inbox, BaseLayer>>} } }

\* The profiles a heap lists: the nodes that are not profiles.defaults and
\* not an inbox profile.
Listed(h) ==
    SelectSeq([i \in 1..Len(h) |-> i],
              LAMBDA p : h[p].origin = OriginUser)

\* The global settings of a load with the inbox color scheme, no command
\* and no keybinding warning.
NoGlobals ==
    [colorSchemes |-> {DefaultColorSchemeName},
     keybindingsWarnings |-> <<>>,
     commands |-> <<>>,
     unparsedDefaultProfile |-> <<>>]

Loaded(h) ==
    [baseLayerProfile |-> BaseLayer,
     allProfiles |-> Listed(h),
     activeProfiles |-> NotHidden(h, Listed(h)),
     defaultProfile |-> 0,
     warnings |-> <<>>,
     globals |-> NoGlobals,
     commandLinesCacheOnce |-> FALSE,
     commandLinesCache |-> <<>>]

\* The default profiles a settings file configures: the identifier of a
\* listed profile, or an identifier no profile has.
MissingGuid == MaxLoaded + MaxMutations + 1

ConfiguredDefaultProfiles(h) ==
    {<<h[p].guid>> : p \in SeqRange(Listed(h))} \cup {<<MissingGuid>>}

\* _resolveDefaultProfile: the identifier of the default profile, the
\* configured one when it is the identifier of an active profile, else the
\* identifier of the first active profile.
_resolveDefaultProfile(h, settings) ==
    IF /\ settings.globals.unparsedDefaultProfile # <<>>
       /\ \E i \in 1..Len(settings.activeProfiles) :
             h[settings.activeProfiles[i]].guid
                 = settings.globals.unparsedDefaultProfile[1]
    THEN settings.globals.unparsedDefaultProfile[1]
    ELSE h[settings.activeProfiles[1]].guid

\* No terminal page takes part.
NoPage == [settings |-> 0]

Idle ==
    [op |-> "idle", container |-> 0, args |-> NullArgs, step |-> "",
     profile |-> Null, source |-> Null, oldName |-> ""]

\* The heaps a load leaves, each with the feature flag it is used under.
LoadedHeaps ==
    UNION { { [h |-> <<BaseNode(<<>>, hidden)>> \o profiles,
               feature |-> feature] :
                profiles \in NamedProfiles(n), hidden \in BOOLEAN,
                feature \in BOOLEAN }
            \cup
            { [h |-> <<BaseNode(cmd, FALSE)>> \o profiles, feature |-> TRUE] :
                profiles \in CommandlineProfiles(n),
                cmd \in Optional(BaseCommandlines) } :
            n \in 1..MaxLoaded }
    \cup { [h |-> h, feature |-> TRUE] : h \in LayeredHeaps }

Init ==
    /\ \E loaded \in LoadedHeaps :
         /\ heap = loaded.h
         /\ showDefaults = loaded.feature
    /\ Loaded(heap).activeProfiles # <<>>
    /\ \E configured \in ConfiguredDefaultProfiles(heap) :
         LET settings == [Loaded(heap) EXCEPT
                             !.globals.unparsedDefaultProfile = configured]
         IN containers = << [settings EXCEPT !.defaultProfile =
                                _resolveDefaultProfile(heap, settings)] >>
    /\ mutations = 0
    /\ call = Idle
    /\ callers = <<>>
    /\ page = NoPage

(***************************************************************************)
(* The operations.  One is in progress at a time; call holds the last one  *)
(* and what it returned until the caller takes it (Return).                *)
(***************************************************************************)
GetProfileForArgsCall ==
    /\ call.op = "idle"
    /\ \E c \in 1..Len(containers), args \in Requests :
         \E got \in {GetProfileForArgs(heap, containers[c], args, showDefaults)} :
            /\ Len(got.cache) <= MaxCached
            /\ containers' = [containers EXCEPT
                   ![c].commandLinesCacheOnce = got.once,
                   ![c].commandLinesCache = got.cache]
            /\ call' = [op |-> "GetProfileForArgs", container |-> c,
                        args |-> args, step |-> got.step,
                        profile |-> got.profile, source |-> Null,
                        oldName |-> ""]
    /\ UNCHANGED <<heap, showDefaults, mutations, callers, page>>

CreateNewProfile ==
    /\ call.op = "idle"
    /\ mutations < MaxMutations
    /\ \E c \in 1..Len(containers) :
         LET settings == containers[c]
             newName == NewProfileName(heap, settings, 0,
                                       Len(settings.allProfiles) + 1)
             newProfile == Len(heap) + 1
         IN /\ heap' = Append(heap, _createNewProfile(heap, settings, newName))
            /\ containers' = [containers EXCEPT
                   ![c].allProfiles = Append(@, newProfile),
                   ![c].activeProfiles = Append(@, newProfile)]
            /\ call' = [Idle EXCEPT !.op = "CreateNewProfile",
                                    !.container = c, !.profile = newProfile]
    /\ mutations' = mutations + 1
    /\ UNCHANGED <<showDefaults, callers, page>>

DuplicateProfile ==
    /\ call.op = "idle"
    /\ mutations < MaxMutations
    /\ \E c \in 1..Len(containers) :
         \E i \in 1..Len(containers[c].allProfiles) :
           LET settings == containers[c]
               duplicated == Len(heap) + 1
           IN /\ heap' = Append(heap,
                     Duplicated(heap, settings, settings.allProfiles[i]))
              /\ containers' = [containers EXCEPT
                     ![c].allProfiles = Append(@, duplicated),
                     ![c].activeProfiles = Append(@, duplicated)]
              /\ call' = [Idle EXCEPT !.op = "DuplicateProfile",
                                      !.container = c, !.profile = duplicated,
                                      !.source = settings.allProfiles[i]]
    /\ mutations' = mutations + 1
    /\ UNCHANGED <<showDefaults, callers, page>>

Copy ==
    /\ call.op = "idle"
    /\ mutations < MaxMutations
    /\ \E c \in 1..Len(containers) :
         LET copied == CopyOf(heap, containers[c])
         IN /\ heap' = copied.heap
            /\ containers' = Append(containers, copied.settings)
            /\ call' = [Idle EXCEPT !.op = "Copy", !.container = c]
    /\ mutations' = mutations + 1
    /\ UNCHANGED <<showDefaults, callers, page>>

\* profile.Commandline(value) on a profile of a container: the settings
\* editor changes a profile's command line.
SetCommandline ==
    /\ call.op = "idle"
    /\ mutations < MaxMutations
    /\ \E c \in 1..Len(containers) :
         \E i \in 1..Len(containers[c].allProfiles) :
           \E value \in EditedCommandlines :
             /\ heap' = [heap EXCEPT
                    ![containers[c].allProfiles[i]].commandline = <<value>>]
             /\ call' = [Idle EXCEPT !.op = "SetCommandline", !.container = c,
                            !.profile = containers[c].allProfiles[i]]
    /\ mutations' = mutations + 1
    /\ UNCHANGED <<containers, showDefaults, callers, page>>

Return ==
    /\ call.op # "idle"
    /\ call' = Idle
    /\ UNCHANGED <<heap, containers, showDefaults, mutations, callers, page>>

Next ==
    \/ GetProfileForArgsCall
    \/ CreateNewProfile
    \/ DuplicateProfile
    \/ Copy
    \/ SetCommandline
    \/ Return

Spec == Init /\ [][Next]_vars

(***************************************************************************)
(* Validation and the settings editor's rename of a color scheme, on       *)
(* containers whose profiles set icons, color schemes and background       *)
(* images.                                                                 *)
(***************************************************************************)
\* A container is validated again only while it has no more warnings.
MaxWarnings == 2

\* The color scheme names a profile or a command is loaded with: the one
\* that exists and one that does not.
SchemeNames == {DefaultColorSchemeName, "Foo"}

\* The name the settings editor renames a color scheme to.
NewSchemeName == "Bar"

NotAUri == <<"b", "a", "d">>

\* Background image paths: one that is no resource locator, one that is.
Paths == { NotAUri, <<"a", COLON, "i">> }

\* Icons: a symbol of two code units, a path that is no resource locator,
\* one that is a resource locator once %v% is expanded.
Icons == { <<"x", "y">>, NotAUri, <<PCT, "v", PCT, COLON, "i">> }

Appearance(scheme, path) ==
    [colorSchemeName |-> scheme, backgroundImagePath |-> path]

\* Heaps whose nodes differ in the color schemes they name.
SchemeHeaps ==
    { <<[BaseNode(<<>>, FALSE) EXCEPT !.colorSchemeName = bs,
                                      !.unfocusedAppearance = bu],
        [LoadedNode(1, "P1", FALSE, <<>>) EXCEPT !.colorSchemeName = s1,
                                                 !.unfocusedAppearance = u1]>>
      \o second :
        bs \in Optional(SchemeNames),
        bu \in Optional({Appearance(<<"Foo">>, <<>>)}),
        s1 \in Optional(SchemeNames),
        u1 \in Optional({Appearance(s, <<>>) : s \in Optional(SchemeNames)}),
        second \in {<<>>} \cup
            { <<[LoadedNode(2, "P2", FALSE, <<>>)
                    EXCEPT !.colorSchemeName = s2]>> :
                s2 \in Optional({"Foo"}) } }

\* Heaps whose nodes differ in their icons and background images.
MediaHeaps ==
    { <<[BaseNode(<<>>, FALSE) EXCEPT !.icon = base[1],
                                      !.backgroundImagePath = base[2]],
        [LoadedNode(1, "P1", FALSE, <<>>) EXCEPT !.icon = i1,
                                                 !.backgroundImagePath = b1,
                                                 !.unfocusedAppearance = u1]>>
      \o second :
        base \in {<<<<>>, <<>>>>, <<NotAUri, <<>>>>, <<<<>>, NotAUri>>},
        i1 \in {<<>>} \cup Icons,
        b1 \in {<<>>} \cup Paths,
        u1 \in Optional({Appearance(<<>>, b) : b \in {<<>>, NotAUri}}),
        second \in {<<>>} \cup
            { <<[LoadedNode(2, "P2", FALSE, <<>>)
                    EXCEPT !.icon = m[1], !.backgroundImagePath = m[2]]>> :
                m \in {<<NotAUri, <<>>>>, <<<<>>, NotAUri>>} } }

\* Commands: setColorScheme with a scheme name, iterated on the color
\* schemes or not; another action; commands nested in a command.
Leaf(args, iterateOn) ==
    [nestedCommands |-> <<>>, setColorSchemeArgs |-> args,
     iterateOn |-> iterateOn]

Nested(commands) ==
    [nestedCommands |-> commands, setColorSchemeArgs |-> <<>>,
     iterateOn |-> IterateOnNone]

CommandMaps ==
    {<<>>}
    \cup { <<Leaf(<<name>>, iterateOn)>> :
              name \in SchemeNames,
              iterateOn \in {IterateOnNone, IterateOnColorSchemes} }
    \cup { <<Leaf(<<>>, IterateOnNone)>>,
           <<Nested(<<Leaf(<<>>, IterateOnNone),
                      Leaf(<<"Foo">>, IterateOnNone)>>)>>,
           <<Nested(<<Leaf(<<"Foo">>, IterateOnColorSchemes)>>)>>,
           <<Nested(<<Leaf(<<>>, IterateOnNone),
                      Nested(<<Leaf(<<"Foo">>, IterateOnNone)>>)>>)>>,
           <<Leaf(<<"Foo">>, IterateOnNone),
             Nested(<<Leaf(<<"Foo">>, IterateOnNone)>>)>> }

\* Global settings that differ in the commands and keybinding warnings.
GlobalSettings ==
    { [NoGlobals EXCEPT !.keybindingsWarnings = warnings,
                        !.commands = commands] :
        warnings \in {<<>>, <<TooManyKeysForChord>>,
                      <<TooManyKeysForChord, MissingRequiredParameter>>},
        commands \in CommandMaps }

\* Heaps whose first listed profile is the child of profiles.defaults and of
\* an inbox profile that sets an icon, a color scheme, a background image
\* and an unfocused appearance.
InboxHeaps ==
    { <<[BaseNode(<<>>, FALSE) EXCEPT !.icon = bi],
        [InboxNode(1, << <<"a">> >>) EXCEPT
            !.icon = <<"x", "y">>,
            !.colorSchemeName = <<DefaultColorSchemeName>>,
            !.backgroundImagePath = <<"a", COLON, "i">>,
            !.unfocusedAppearance = <<Appearance(<<>>, <<>>)>>],
        [LoadedNode(1, "P1", FALSE, <<>>) EXCEPT !.parents = first,
                                                 !.icon = i1]>> :
        bi \in {<<>>, <<"x", "y">>},
        first \in {<<BaseLayer, Inbox>>, <<Inbox, BaseLayer>>},
        i1 \in {<<>>, <<"y", "x">>} }

\* What a load leaves before it validates.
Unvalidated ==
    { [h |-> h, globals |-> NoGlobals] :
        h \in SchemeHeaps \cup MediaHeaps \cup InboxHeaps }
    \cup
    { [h |-> <<BaseNode(<<>>, FALSE),
               [LoadedNode(1, "P1", FALSE, <<>>)
                   EXCEPT !.colorSchemeName = s1]>>,
       globals |-> globals] :
        s1 \in Optional({"Foo"}), globals \in GlobalSettings }

\* What a load that is copied leaves: one profile, any of the problems
\* validation repairs.
UnvalidatedAndCopied ==
    { [h |-> <<[BaseNode(<<>>, FALSE) EXCEPT !.colorSchemeName = bs],
               [LoadedNode(1, "P1", FALSE, <<>>)
                   EXCEPT !.colorSchemeName = s1, !.icon = i1,
                          !.unfocusedAppearance = u1]>>,
       globals |-> globals] :
        bs \in Optional({"Foo"}),
        s1 \in Optional(SchemeNames),
        i1 \in {<<>>, NotAUri},
        u1 \in Optional({Appearance(<<"Foo">>, NotAUri)}),
        globals \in {NoGlobals,
                     [NoGlobals EXCEPT
                         !.keybindingsWarnings = <<TooManyKeysForChord>>]} }

\* The container of a load.
LoadedWith(loaded) ==
    [Loaded(loaded.h) EXCEPT !.defaultProfile = 1,
                             !.globals = loaded.globals]

\* The state when validation starts: the container of a load, alone or
\* with a copy of it.
InitValidate ==
    /\ \/ \E loaded \in Unvalidated :
            /\ heap = loaded.h
            /\ containers = <<LoadedWith(loaded)>>
       \/ \E loaded \in UnvalidatedAndCopied :
            LET copy == CopyOf(loaded.h, LoadedWith(loaded))
            IN /\ heap = copy.heap
               /\ containers = <<LoadedWith(loaded), copy.settings>>
    /\ showDefaults = TRUE
    /\ mutations = 0
    /\ call = Idle
    /\ callers = <<>>
    /\ page = NoPage

ValidateSettings ==
    /\ call.op = "idle"
    /\ \E c \in 1..Len(containers) :
         LET validated == _validateSettings(heap, containers[c])
         IN /\ Len(containers[c].warnings) <= MaxWarnings
            /\ heap' = validated.heap
            /\ containers' = [containers EXCEPT
                   ![c].warnings = validated.warnings]
            /\ call' = [Idle EXCEPT !.op = "_validateSettings",
                                    !.container = c]
    /\ UNCHANGED <<showDefaults, mutations, callers, page>>

UpdateColorSchemeReferences ==
    /\ call.op = "idle"
    /\ \E c \in 1..Len(containers), oldName \in SchemeNames :
         /\ heap' = UpdateColorSchemeReferencesOf(heap, containers[c],
                        oldName, NewSchemeName)
         /\ call' = [Idle EXCEPT !.op = "UpdateColorSchemeReferences",
                                 !.container = c, !.oldName = oldName]
    /\ UNCHANGED <<containers, showDefaults, mutations, callers, page>>

NextValidate ==
    \/ ValidateSettings
    \/ UpdateColorSchemeReferences
    \/ CreateNewProfile
    \/ DuplicateProfile
    \/ Copy
    \/ Return

SpecValidate == InitValidate /\ [][NextValidate]_vars

(***************************************************************************)
(* Threads that call _getProfileForCommandLine on one container at the     *)
(* same time.  A caller is                                                 *)
(*   pc           where it is in the function                              *)
(*   commandLine  the command line it was called with                      *)
(*   ran          whether it entered the lambda of call_once               *)
(*   next         inside the lambda: the position in _allProfiles of the   *)
(*                profile the loop is at                                   *)
(*   it           the position lower_bound returned                        *)
(*   profile      the profile returned, Null for nullptr                   *)
(***************************************************************************)
\* The number of threads.
MaxCallers == 2

RaceRequests ==
    { <<"a">>, <<"a", SP, "x", SP, "y">>, <<"p", SP, "x", SP, "y">> }

Caller(commandLine) ==
    [pc |-> "call_once", commandLine |-> commandLine, ran |-> FALSE,
     next |-> 0, it |-> 0, profile |-> Null]

InitRace ==
    /\ \E n \in 1..MaxLoaded :
         \E profiles \in CommandlineProfiles(n),
            cmd \in Optional(BaseCommandlines) :
            heap = <<BaseNode(cmd, FALSE)>> \o profiles
    /\ containers = <<[Loaded(heap) EXCEPT !.defaultProfile = 1]>>
    /\ showDefaults = TRUE
    /\ mutations = 0
    /\ call = Idle
    /\ callers \in [1..MaxCallers -> {Caller(c) : c \in RaceRequests}]
    /\ page = NoPage

\* The container the callers share.
Shared == containers[1]

\* An execution of the lambda of call_once is in progress.
Running == \E t \in DOMAIN callers : callers[t].pc \in {"lambda", "sort", "sorted"}

\* std::call_once, what the caller does: it returns when the flag is set,
\* waits while another execution is in progress, runs the lambda else.
call_once(once, running) ==
    IF once THEN "returns" ELSE IF running THEN "waits" ELSE "runs"

\* std::call_once(_commandLinesCacheOnce, ...), entered.
EnterCallOnce(t) ==
    /\ callers[t].pc = "call_once"
    /\ call_once(Shared.commandLinesCacheOnce, Running) # "waits"
    /\ callers' = [callers EXCEPT ![t] =
           IF call_once(Shared.commandLinesCacheOnce, Running) = "returns"
           THEN [@ EXCEPT !.pc = "normalize"]
           ELSE [@ EXCEPT !.pc = "lambda", !.ran = TRUE, !.next = 1]]
    /\ UNCHANGED <<heap, containers, showDefaults, mutations, call, page>>

\* One round of the loop of the lambda: the profile is skipped, or its
\* entry is appended, or _normalizeCommandLine throws and call_once lets
\* the exception through with the flag unset.
LoopStep(t) ==
    /\ callers[t].pc = "lambda"
    /\ callers[t].next <= Len(Shared.allProfiles)
    /\ LET profile == Shared.allProfiles[callers[t].next]
           cmd == Commandline(heap, profile)
       IN IF cmd = <<>>
          THEN /\ callers' = [callers EXCEPT ![t].next = @ + 1]
               /\ UNCHANGED containers
          ELSE IF Normalized[cmd] = NormalizeThrew
          THEN /\ callers' = [callers EXCEPT ![t].pc = "threw"]
               /\ UNCHANGED containers
          ELSE /\ callers' = [callers EXCEPT ![t].next = @ + 1]
               /\ containers' = [containers EXCEPT ![1].commandLinesCache =
                      Append(@, <<Normalized[cmd], profile>>)]
    /\ UNCHANGED <<heap, showDefaults, mutations, call, page>>

\* The loop of the lambda ends.
LoopEnd(t) ==
    /\ callers[t].pc = "lambda"
    /\ callers[t].next > Len(Shared.allProfiles)
    /\ callers' = [callers EXCEPT ![t].pc = "sort"]
    /\ UNCHANGED <<heap, containers, showDefaults, mutations, call, page>>

\* std::stable_sort at the end of the lambda.
StableSort(t) ==
    /\ callers[t].pc = "sort"
    /\ containers' = [containers EXCEPT ![1].commandLinesCache = stable_sort(@)]
    /\ callers' = [callers EXCEPT ![t].pc = "sorted"]
    /\ UNCHANGED <<heap, showDefaults, mutations, call, page>>

\* The lambda returned: call_once sets the flag and returns.
LeaveCallOnce(t) ==
    /\ callers[t].pc = "sorted"
    /\ containers' = [containers EXCEPT ![1].commandLinesCacheOnce = TRUE]
    /\ callers' = [callers EXCEPT ![t].pc = "normalize"]
    /\ UNCHANGED <<heap, showDefaults, mutations, call, page>>

\* const auto needle = _normalizeCommandLine(commandLine.c_str());
NormalizeNeedle(t) ==
    /\ callers[t].pc = "normalize"
    /\ callers' = [callers EXCEPT ![t].pc =
           IF Normalized[callers[t].commandLine] = NormalizeThrew
           THEN "threw" ELSE "lower_bound"]
    /\ UNCHANGED <<heap, containers, showDefaults, mutations, call, page>>

\* std::lower_bound over the cache.
LowerBound(t) ==
    /\ callers[t].pc = "lower_bound"
    /\ callers' = [callers EXCEPT
           ![t].it = lower_bound(Shared.commandLinesCache,
                                 Normalized[callers[t].commandLine], 0,
                                 Len(Shared.commandLinesCache)),
           ![t].pc = "scan"]
    /\ UNCHANGED <<heap, containers, showDefaults, mutations, call, page>>

\* The loop from it to the end of the cache, and the return.
Scan(t) ==
    /\ callers[t].pc = "scan"
    /\ callers' = [callers EXCEPT
           ![t].profile = ScanForPrefix(Shared.commandLinesCache,
                              Normalized[callers[t].commandLine],
                              callers[t].it),
           ![t].pc = "done"]
    /\ UNCHANGED <<heap, containers, showDefaults, mutations, call, page>>

NextRace ==
    \/ \E t \in DOMAIN callers : EnterCallOnce(t)
    \/ \E t \in DOMAIN callers : LoopStep(t)
    \/ \E t \in DOMAIN callers : LoopEnd(t)
    \/ \E t \in DOMAIN callers : StableSort(t)
    \/ \E t \in DOMAIN callers : LeaveCallOnce(t)
    \/ \E t \in DOMAIN callers : NormalizeNeedle(t)
    \/ \E t \in DOMAIN callers : LowerBound(t)
    \/ \E t \in DOMAIN callers : Scan(t)

SpecRace == InitRace /\ [][NextRace]_vars

(***************************************************************************)
(* The terminal page and the reload of its settings.  The page refers to   *)
(* one container (_settings).  A reload builds a new container from the    *)
(* settings files, validates it and hands it to the page's UI thread,      *)
(* where SetSettings replaces the reference.  Connections arrive on the UI *)
(* thread or on a COM thread; _OnNewConnection resolves a profile and      *)
(* creates the terminal settings through the reference.                    *)
(***************************************************************************)
MaxReloads == 2

MaxConnections == 2

\* What connection.Commandline() is.
ConnectionCommandlines == { <<"a">>, <<"d", SP, "x">> }

\* What the settings files hold at a load.
SettingsFiles ==
    { [h |-> <<BaseNode(<<>>, FALSE),
               [LoadedNode(1, "P1", FALSE, << <<"a">> >>)
                   EXCEPT !.colorSchemeName = s1]>> \o second,
       globals |-> NoGlobals] :
        s1 \in Optional({"Foo"}),
        second \in {<<>>, <<LoadedNode(2, "P2", FALSE, <<>>)>>} }

\* The nodes of a load, built after offset nodes of the heap.
Relocated(h, offset) ==
    [i \in 1..Len(h) |->
        [h[i] EXCEPT !.parents = [j \in DOMAIN @ |-> @[j] + offset]]]

\* The container of a load whose nodes are built after offset nodes.
LoadedAt(loaded, offset) ==
    [LoadedWith(loaded) EXCEPT
        !.baseLayerProfile = @ + offset,
        !.allProfiles = [i \in DOMAIN @ |-> @[i] + offset],
        !.activeProfiles = [i \in DOMAIN @ |-> @[i] + offset]]

\* A connection handed to _OnNewConnection on the UI thread
\* (hasThreadAccess) or on a COM thread.
Connection(hasThreadAccess, commandline) ==
    [pc |-> "called", hasThreadAccess |-> hasThreadAccess,
     commandline |-> commandline, resolvedIn |-> 0, profile |-> Null,
     createdWith |-> 0, partial |-> FALSE,
     runs |-> 0, latch |-> <<>>, finalVal |-> S_OK, returned |-> <<>>]

NoReload == [pc |-> "idle", container |-> 0, count |-> 0]

\* The page after startup: it refers to the container of the first load,
\* which is validated.
InitReload ==
    /\ \E loaded \in SettingsFiles :
         \E validated \in {_validateSettings(loaded.h, LoadedWith(loaded))} :
            /\ heap = validated.heap
            /\ containers = <<[LoadedWith(loaded) EXCEPT
                                  !.warnings = validated.warnings]>>
    /\ showDefaults = TRUE
    /\ mutations = 0
    /\ call = Idle
    /\ callers = <<>>
    /\ \E connections \in [1..MaxConnections ->
                              {Connection(a, c) : a \in BOOLEAN,
                                                  c \in ConnectionCommandlines}] :
         page = [settings |-> 1, ui |-> 0, reload |-> NoReload,
                 connections |-> connections]

\* The containers a reload has built and not yet validated.
UnderConstruction ==
    IF page.reload.pc = "loaded" THEN {page.reload.container} ELSE {}

\* The reload builds a brand-new container from the settings files.
LoadAll ==
    /\ page.reload.pc = "idle"
    /\ page.reload.count < MaxReloads
    /\ \E loaded \in SettingsFiles :
         /\ heap' = heap \o Relocated(loaded.h, Len(heap))
         /\ containers' = Append(containers, LoadedAt(loaded, Len(heap)))
    /\ page' = [page EXCEPT !.reload = [pc |-> "loaded",
                                        container |-> Len(containers) + 1,
                                        count |-> @.count + 1]]
    /\ UNCHANGED <<showDefaults, mutations, call, callers>>

\* The reload validates the container it built.
ValidateLoaded ==
    /\ page.reload.pc = "loaded"
    /\ \E c \in {page.reload.container} :
         \E validated \in {_validateSettings(heap, containers[c])} :
            /\ heap' = validated.heap
            /\ containers' = [containers EXCEPT
                   ![c].warnings = validated.warnings]
    /\ page' = [page EXCEPT !.reload.pc = "validated"]
    /\ UNCHANGED <<showDefaults, mutations, call, callers>>

\* The reload hands the container to the UI thread of the page.
DispatchSetSettings ==
    /\ page.reload.pc = "validated"
    /\ page' = [page EXCEPT !.reload.pc = "dispatched"]
    /\ UNCHANGED <<heap, containers, showDefaults, mutations, call, callers>>

\* TerminalPage::SetSettings, on the UI thread: _settings = settings.
SetSettings ==
    /\ page.reload.pc = "dispatched"
    /\ page.ui = 0
    /\ page' = [page EXCEPT !.settings = page.reload.container,
                            !.reload.pc = "idle"]
    /\ UNCHANGED <<heap, containers, showDefaults, mutations, call, callers>>

\* The failure CATCH_RETURN returns.
E_FAIL == "E_FAIL"

\* A callback that counts the latch down only when the run succeeded.
LambdaEndOnSuccess(connection, hr) ==
    [connection EXCEPT !.finalVal = hr,
                       !.latch = IF hr = S_OK THEN <<@[1] - 1>> ELSE @]

\* The end of the callback queued to the dispatcher:
\* finalVal = _OnNewConnection(connection); latch.count_down();
LambdaEnd(connection, hr) ==
    [connection EXCEPT !.finalVal = hr, !.latch = <<@[1] - 1>>]

\* The body of _OnNewConnection returns hr: to the callback when the
\* dispatcher ran it, to the caller otherwise.
BodyReturns(connection, hr) ==
    IF connection.latch # <<>>
    THEN LambdaEnd(connection, hr)
    ELSE [connection EXCEPT !.returned = <<hr>>]

\* _OnNewConnection goes on where it was called, whatever the thread.
RunsOnCallingThread(hasThreadAccess) == FALSE

\* _OnNewConnection does not have thread access and runs itself again
\* under the dispatcher.
RunsUnderDispatcher(hasThreadAccess) == ~hasThreadAccess

\* _OnNewConnection is entered.  On the UI thread it is the callback the
\* thread runs; on a COM thread it queues itself and waits on the latch.
OnNewConnection(t) ==
    LET connection == page.connections[t]
    IN /\ connection.pc = "called"
       /\ connection.hasThreadAccess => page.ui = 0
       /\ page' = [page EXCEPT
              !.ui = IF connection.hasThreadAccess THEN t ELSE @,
              !.connections[t] =
                  IF RunsUnderDispatcher(connection.hasThreadAccess)
                  THEN [@ EXCEPT !.pc = "queued", !.latch = <<1>>]
                  ELSE [@ EXCEPT !.pc = "resolve", !.runs = @ + 1]]
       /\ UNCHANGED <<heap, containers, showDefaults, mutations, call,
                      callers>>

\* The dispatcher runs the queued callback on the UI thread.
RunAsync(t) ==
    /\ page.connections[t].pc = "queued"
    /\ page.ui = 0
    /\ page' = [page EXCEPT !.ui = t,
                            !.connections[t].pc = "resolve",
                            !.connections[t].runs = @ + 1]
    /\ UNCHANGED <<heap, containers, showDefaults, mutations, call, callers>>

\* The UI thread is free again when its callback t returns.
Released(t) == IF page.ui = t THEN 0 ELSE page.ui

\* _settings.GetProfileForArgs(newTerminalArgs); CATCH_RETURN when it
\* throws.
ResolveConnection(t) ==
    /\ page.connections[t].pc = "resolve"
    /\ \E c \in {page.settings} :
         \E got \in {GetProfileForArgs(heap, containers[c],
                          [present |-> TRUE, Profile |-> "",
                           ProfileIndex |-> <<>>,
                           Commandline |-> page.connections[t].commandline],
                          showDefaults)} :
            /\ containers' = [containers EXCEPT
                   ![c].commandLinesCacheOnce = got.once,
                   ![c].commandLinesCache = got.cache]
            /\ page' = [page EXCEPT
                   !.ui = IF got.profile = Threw THEN Released(t) ELSE @,
                   !.connections[t] =
                       LET resolved ==
                               [@ EXCEPT !.resolvedIn = c,
                                         !.profile = got.profile,
                                         !.partial = c \in UnderConstruction]
                       IN IF got.profile = Threw
                          THEN BodyReturns([resolved EXCEPT !.pc = "failed"],
                                           E_FAIL)
                          ELSE [resolved EXCEPT !.pc = "create"]]
    /\ UNCHANGED <<heap, showDefaults, mutations, call, callers>>

\* TerminalSettings::CreateWithProfile(_settings, profile, *_bindings), the
\* creation of the tab, which throws or not, and the return of
\* _OnNewConnection.
CreateWithProfile(t) ==
    LET connection == page.connections[t]
    IN /\ connection.pc = "create"
       /\ \E created \in BOOLEAN :
            page' = [page EXCEPT
              !.ui = Released(t),
              !.connections[t] =
                  BodyReturns(
                      [@ EXCEPT !.pc = IF created THEN "done" ELSE "failed",
                                !.createdWith = page.settings,
                                !.partial =
                                    @ \/ page.settings \in UnderConstruction],
                      IF created THEN S_OK ELSE E_FAIL)]
       /\ UNCHANGED <<heap, containers, showDefaults, mutations, call,
                      callers>>

\* latch.wait() returns on the calling thread, which returns finalVal.
LatchWait(t) ==
    /\ page.connections[t].latch = <<0>>
    /\ page.connections[t].returned = <<>>
    /\ page' = [page EXCEPT !.connections[t].returned =
                                <<page.connections[t].finalVal>>]
    /\ UNCHANGED <<heap, containers, showDefaults, mutations, call, callers>>

NextReload ==
    \/ LoadAll
    \/ ValidateLoaded
    \/ DispatchSetSettings
    \/ SetSettings
    \/ \E t \in DOMAIN page.connections : OnNewConnection(t)
    \/ \E t \in DOMAIN page.connections : RunAsync(t)
    \/ \E t \in DOMAIN page.connections : ResolveConnection(t)
    \/ \E t \in DOMAIN page.connections : CreateWithProfile(t)
    \/ \E t \in DOMAIN page.connections : LatchWait(t)

SpecReload == InitReload /\ [][NextReload]_vars

\* The connections alone, while no reload happens.
NextConnections ==
    \/ \E t \in DOMAIN page.connections : OnNewConnection(t)
    \/ \E t \in DOMAIN page.connections : RunAsync(t)
    \/ \E t \in DOMAIN page.connections : ResolveConnection(t)
    \/ \E t \in DOMAIN page.connections : CreateWithProfile(t)
    \/ \E t \in DOMAIN page.connections : LatchWait(t)

\* The dispatcher runs every callback queued to it, the UI thread runs a
\* callback to its end, and a thread whose latch is open goes on.
SpecConnections ==
    /\ InitReload
    /\ [][NextConnections]_vars
    /\ \A t \in 1..MaxConnections :
         /\ WF_vars(RunAsync(t))
         /\ WF_vars(ResolveConnection(t))
         /\ WF_vars(CreateWithProfile(t))
         /\ WF_vars(LatchWait(t))

(***************************************************************************)
(* Containers whose profiles have the names CreateNewProfile and           *)
(* DuplicateProfile try for a new profile.                                 *)
(***************************************************************************)
MaxNamed == 3

\* The names the loaded profiles have: a name, its copies, and the names of
\* new profiles.
TriedNames ==
    { "A", "A (" \o CopySuffix \o ")", "A (" \o CopySuffix \o " 2)" }
    \cup { "Profile " \o ToString(n) : n \in 2..(2 * MaxNamed) }

InitNames ==
    /\ \E n \in 1..MaxNamed :
         \E names \in [1..n -> TriedNames] :
            heap = <<BaseNode(<<>>, FALSE)>>
                   \o [i \in 1..n |-> LoadedNode(i, names[i], FALSE, <<>>)]
    /\ containers = <<[Loaded(heap) EXCEPT !.defaultProfile = 1]>>
    /\ showDefaults = TRUE
    /\ mutations = 0
    /\ call = Idle
    /\ callers = <<>>
    /\ page = NoPage

NextNames ==
    \/ CreateNewProfile
    \/ DuplicateProfile
    \/ Return

SpecNames == InitNames /\ [][NextNames]_vars

(***************************************************************************)
(* The terminal page from its construction on: the first layout, the       *)
(* startup actions, the inbound connection listener and the dialogs of     *)
(* RequestQuit and CloseWindow.  Everything here runs on the UI thread; a  *)
(* step is what a handler or a coroutine does between two suspensions.     *)
(* The page lives as long as the specification follows it.  page holds     *)
(*   startupState, startupActions (the length of the list),                *)
(*   shouldStartInboundListener, displayingCloseDialog, tabs (their        *)
(*   number), confirmCloseAllTabs (the global setting),                    *)
(*   startups  the ProcessStartupActions coroutines,                       *)
(*   closers   the RequestQuit and CloseWindow coroutines that showed a    *)
(*             dialog,                                                     *)
(*   layouts, listenerCalls, listenerStarts, dispatched, quitRequested     *)
(*             counts of layout events handled, SetInboundListener calls,  *)
(*             starts of the listener, initial startup actions dispatched  *)
(*             and quit-requested events raised,                           *)
(*   last      the handler that ran last, its argument and what it gave.   *)
(***************************************************************************)
MaxLayouts == 2

MaxActions == 2

MaxStartups == 2

MaxListenerCalls == 2

MaxClosers == 2

NotInitialized == "NotInitialized"

InStartup == "InStartup"

Initialized == "Initialized"

\* ContentDialogResult
DialogResults == {"None", "Primary", "Secondary"}

Did(op, bypassDialog, result) ==
    [op |-> op, bypassDialog |-> bypassDialog, result |-> result]

\* _StartInboundListener; started is FALSE when
\* ConptyConnection::StartInboundListener throws.
_StartInboundListener(p, started) ==
    IF p.shouldStartInboundListener
    THEN [p EXCEPT !.shouldStartInboundListener = FALSE,
                   !.listenerStarts = @ + 1,
                   !.last.result = IF started THEN "started" ELSE "threw"]
    ELSE p

\* ProcessStartupActions up to its co_await: the coroutine waits for the
\* dispatcher.
ProcessStartupActions(p, actions, initial) ==
    [p EXCEPT !.startups = Append(@, [pc |-> "queued", initial |-> initial,
                                      actions |-> actions])]

\* A handler that starts the startup actions whatever the startup state.
_OnFirstLayoutInAnyState(p, persisted, started) ==
    LET inStartup ==
            [p EXCEPT !.layoutUpdatedRevoked = TRUE,
                      !.startupState = InStartup,
                      !.startupActions =
                          IF persisted > 0 THEN persisted ELSE @]
    IN _StartInboundListener(
           ProcessStartupActions(inStartup, inStartup.startupActions, TRUE),
           started)

\* _OnFirstLayout; persisted is the length of the tab layout that
\* LoadPersistedLayout gives, 0 when it gives none.
_OnFirstLayout(p, persisted, started) ==
    LET revoked == [p EXCEPT !.layoutUpdatedRevoked = TRUE]
        inStartup ==
            [revoked EXCEPT !.startupState = InStartup,
                            !.startupActions =
                                IF persisted > 0 THEN persisted ELSE @]
    IN IF p.startupState = NotInitialized
       THEN _StartInboundListener(
                ProcessStartupActions(inStartup, inStartup.startupActions,
                                      TRUE),
                started)
       ELSE revoked

_CompleteInitialization(p) == [p EXCEPT !.startupState = Initialized]

\* The loop of ProcessStartupActions: every action is dispatched, each opens
\* a tab.
DoActions(p, k) ==
    [p EXCEPT !.tabs = @ + p.startups[k].actions,
              !.dispatched = IF p.startups[k].initial
                             THEN @ + p.startups[k].actions ELSE @,
              !.startups[k].pc = "done"]

\* ProcessStartupActions from its co_await on.
ResumedStartupActions(p, k) ==
    IF p.startups[k].initial
    THEN _CompleteInitialization(DoActions(p, k))
    ELSE DoActions(p, k)

\* A listener that is started at once in every startup state.
SetInboundListenerAtOnce(p, started) ==
    _StartInboundListener([p EXCEPT !.shouldStartInboundListener = TRUE],
                          started)

SetInboundListener(p, started) ==
    LET should == [p EXCEPT !.shouldStartInboundListener = TRUE]
    IN IF p.startupState # NotInitialized
       THEN _StartInboundListener(should, started)
       ELSE should

\* GetWindowLayout: "null" for no layout.
GetWindowLayout(p) ==
    IF p.startupState # Initialized THEN "null" ELSE "layout"

_HasMultipleTabs(p) == p.tabs > 1

_RemoveAllTabs(p) == [p EXCEPT !.tabs = 0]

\* A coroutine shows its dialog and waits for the result.
ShowDialog(p, op) ==
    [p EXCEPT !.displayingCloseDialog = TRUE,
              !.closers = Append(@, [op |-> op, pc |-> "dialog"])]

\* RequestQuit up to its co_await.
RequestQuit(p) ==
    IF ~p.displayingCloseDialog THEN ShowDialog(p, "RequestQuit") ELSE p

\* CloseWindow up to its co_await, or to its end when it shows no dialog.
CloseWindow(p, bypassDialog) ==
    IF /\ ~bypassDialog
       /\ _HasMultipleTabs(p)
       /\ p.confirmCloseAllTabs
       /\ ~p.displayingCloseDialog
    THEN ShowDialog(p, "CloseWindow")
    ELSE _RemoveAllTabs(p)

\* RequestQuit and CloseWindow from their co_await on, with the result of
\* the dialog.
ResumedCloser(p, k, result) ==
    LET closed == [p EXCEPT !.displayingCloseDialog = FALSE,
                            !.closers[k].pc = "done"]
    IN IF result # "Primary" THEN closed
       ELSE IF p.closers[k].op = "RequestQuit"
       THEN [closed EXCEPT !.quitRequested = @ + 1]
       ELSE _RemoveAllTabs(closed)

InitPage ==
    /\ heap = <<>>
    /\ containers = <<>>
    /\ showDefaults = TRUE
    /\ mutations = 0
    /\ call = Idle
    /\ callers = <<>>
    /\ \E actions \in 0..MaxActions, confirm \in BOOLEAN :
         page = [startupState |-> NotInitialized,
                 startupActions |-> actions,
                 layoutUpdatedRevoked |-> FALSE,
                 shouldStartInboundListener |-> FALSE,
                 displayingCloseDialog |-> FALSE,
                 confirmCloseAllTabs |-> confirm,
                 tabs |-> 0,
                 startups |-> <<>>,
                 closers |-> <<>>,
                 layouts |-> 0,
                 listenerCalls |-> 0,
                 listenerStarts |-> 0,
                 dispatched |-> 0,
                 quitRequested |-> 0,
                 last |-> Did("", FALSE, "")]

\* The rest of the state, which the page does not touch.
NoSettings == UNCHANGED <<heap, containers, showDefaults, mutations, call,
                          callers>>

\* The layout event fires; the handler runs although it was revoked when
\* the event was raised before the revocation.
OnFirstLayout ==
    /\ page.layouts < MaxLayouts
    /\ \E persisted \in 0..MaxActions, started \in BOOLEAN :
         page' = _OnFirstLayout(
                     [page EXCEPT !.layouts = @ + 1,
                                  !.last = Did("_OnFirstLayout", FALSE, "")],
                     persisted, started)
    /\ NoSettings

\* The application passes the actions of another command line.
ProcessStartupActionsCall ==
    /\ Len(page.startups) < MaxStartups
    /\ \E actions \in 1..MaxActions :
         page' = ProcessStartupActions(
                     [page EXCEPT
                         !.last = Did("ProcessStartupActions", FALSE, "")],
                     actions, FALSE)
    /\ NoSettings

ResumeStartupActions(k) ==
    /\ page.startups[k].pc = "queued"
    /\ page' = ResumedStartupActions(
                   [page EXCEPT
                       !.last = Did("ProcessStartupActions", FALSE, "")], k)
    /\ NoSettings

SetInboundListenerCall ==
    /\ page.listenerCalls < MaxListenerCalls
    /\ \E started \in BOOLEAN :
         page' = SetInboundListener(
                     [page EXCEPT
                         !.listenerCalls = @ + 1,
                         !.last = Did("SetInboundListener", FALSE, "")],
                     started)
    /\ NoSettings

GetWindowLayoutCall ==
    /\ page' = [page EXCEPT
                   !.last = Did("GetWindowLayout", FALSE,
                                GetWindowLayout(page))]
    /\ NoSettings

RequestQuitCall ==
    /\ Len(page.closers) < MaxClosers
    /\ page' = RequestQuit([page EXCEPT !.last = Did("RequestQuit", FALSE, "")])
    /\ NoSettings

CloseWindowCall ==
    /\ Len(page.closers) < MaxClosers
    /\ \E bypassDialog \in BOOLEAN :
         page' = CloseWindow(
                     [page EXCEPT
                         !.last = Did("CloseWindow", bypassDialog, "")],
                     bypassDialog)
    /\ NoSettings

\* The dialog of coroutine k is closed with a result.
DialogClosed(k) ==
    /\ page.closers[k].pc = "dialog"
    /\ \E result \in DialogResults :
         page' = ResumedCloser(
                     [page EXCEPT
                         !.last = Did(page.closers[k].op, FALSE, result)],
                     k, result)
    /\ NoSettings

NextPage ==
    \/ OnFirstLayout
    \/ ProcessStartupActionsCall
    \/ \E k \in 1..Len(page.startups) : ResumeStartupActions(k)
    \/ SetInboundListenerCall
    \/ GetWindowLayoutCall
    \/ RequestQuitCall
    \/ CloseWindowCall
    \/ \E k \in 1..Len(page.closers) : DialogClosed(k)

SpecPage == InitPage /\ [][NextPage]_vars

(***************************************************************************)
(* The properties.  Each is about the call that call holds: the container  *)
(* it was made on, its request and what it returned.                       *)
(***************************************************************************)
Resolved == call.op = "GetProfileForArgs"

Settings == containers[call.container]

AllProfiles == SeqRange(Settings.allProfiles)

\* p is the profile whose identifier is the global default-profile
\* identifier.
IsDefaultProfile(p) ==
    p \in AllProfiles /\ heap[p].guid = Settings.defaultProfile

\* No name, index or command-line step decided the call.
NoStepMatched == Resolved /\ call.step = "fallback"

NoCommandline == ~call.args.present \/ call.args.Commandline = <<>>

\* C1: on a loaded container, and after any CreateNewProfile,
\* DuplicateProfile and Copy, GetProfileForArgs returns a real profile (one
\* of the container's profiles or its profiles.defaults) for every request.
C1_AlwaysReturnsProfile ==
    Resolved =>
        call.profile \in AllProfiles \cup {Settings.baseLayerProfile}

\* C2 as stated: with the feature enabled and no step matched, the call
\* returns profiles.defaults when the request carried no command line, and
\* the default profile when it carried a non-empty command line.
C2_DefaultsWithoutCommandline ==
    NoStepMatched /\ showDefaults =>
        IF NoCommandline
        THEN call.profile = Settings.baseLayerProfile
        ELSE IsDefaultProfile(call.profile)

\* C2 amended: with the feature enabled and no step matched, the call
\* returns the default profile when the request carried no command line, and
\* profiles.defaults when it carried a non-empty command line.
C2_DefaultsWithCommandline ==
    NoStepMatched /\ showDefaults =>
        IF NoCommandline
        THEN IsDefaultProfile(call.profile)
        ELSE call.profile = Settings.baseLayerProfile

\* With the feature enabled, a request with only an unmatched command line
\* got profiles.defaults, which is not the default profile.
C2_Witness ==
    /\ NoStepMatched
    /\ showDefaults
    /\ call.args.Commandline # <<>>
    /\ call.args.Profile = ""
    /\ call.args.ProfileIndex = <<>>
    /\ call.profile = Settings.baseLayerProfile
    /\ ~IsDefaultProfile(call.profile)

\* C3: with the feature enabled an unmatched request with a non-empty
\* command line resolves to profiles.defaults, and a request without a
\* command line or a null request to the default profile; with the feature
\* disabled every unmatched request resolves to the default profile.
C3_UnmatchedRequests ==
    NoStepMatched =>
        /\ showDefaults /\ ~NoCommandline =>
               call.profile = Settings.baseLayerProfile
        /\ showDefaults /\ NoCommandline => IsDefaultProfile(call.profile)
        /\ ~showDefaults => IsDefaultProfile(call.profile)

\* With the feature disabled, a request with an unmatched command line got
\* the default profile.
C3_Witness ==
    /\ NoStepMatched
    /\ ~showDefaults
    /\ call.args.Commandline # <<>>
    /\ IsDefaultProfile(call.profile)

\* C4: a request whose name is the name of some profile is decided by the
\* name step, whatever index and command line it carries: the profile
\* returned is one the name designates, by its name or by its identifier.
C4_NameMatchWins ==
    Resolved /\ call.args.present /\ call.args.Profile # ""
        /\ (\E p \in AllProfiles : heap[p].name = call.args.Profile) =>
            /\ call.step = "name"
            /\ call.profile \in AllProfiles
            /\ \/ heap[call.profile].name = call.args.Profile
               \/ GuidToString(heap[call.profile].guid) = call.args.Profile

\* A request with a name, with an index that selects another profile and
\* with a command line got the profile of that name.
C4_Witness ==
    /\ Resolved
    /\ call.step = "name"
    /\ call.args.Profile # ""
    /\ call.args.Commandline # <<>>
    /\ call.args.ProfileIndex # <<>>
    /\ call.args.ProfileIndex[1] \in 0..(Len(Settings.activeProfiles) - 1)
    /\ Settings.activeProfiles[call.args.ProfileIndex[1] + 1] # call.profile
    /\ heap[call.profile].name = call.args.Profile

\* The position in the list of all profiles of the first profile that
\* satisfies Test, 0 when none does.
FirstPosition(hits) ==
    IF hits = {} THEN 0 ELSE CHOOSE i \in hits : \A j \in hits : i <= j

FirstNamed ==
    FirstPosition({i \in 1..Len(Settings.allProfiles) :
        heap[Settings.allProfiles[i]].name = call.args.Profile})

FirstIdentified ==
    FirstPosition({i \in 1..Len(Settings.allProfiles) :
        GuidToString(heap[Settings.allProfiles[i]].guid) = call.args.Profile})

\* C5 as stated: for a non-empty name the name step returns the first
\* profile of the list of all profiles, hidden ones included, whose name is
\* the given name, and no match when no profile has that name.
C5_FirstOfThatName ==
    Resolved /\ call.args.present /\ call.args.Profile # "" =>
        IF FirstNamed # 0
        THEN /\ call.step = "name"
             /\ call.profile = Settings.allProfiles[FirstNamed]
        ELSE call.step # "name"

\* C5 amended: a name that is the string of the identifier of a profile
\* yields the first profile with that identifier; any other non-empty name
\* yields the first profile of the list of all profiles, hidden ones
\* included, whose name is the given name, and no match when none has it.
C5_IdentifierThenName ==
    Resolved /\ call.args.present /\ call.args.Profile # "" =>
        IF FirstIdentified # 0
        THEN /\ call.step = "name"
             /\ call.profile = Settings.allProfiles[FirstIdentified]
        ELSE IF FirstNamed # 0
        THEN /\ call.step = "name"
             /\ call.profile = Settings.allProfiles[FirstNamed]
        ELSE call.step # "name"

\* The name step returned a hidden profile, the first of two of that name,
\* for a name that is no profile's identifier.
C5_Witness ==
    /\ Resolved
    /\ call.step = "name"
    /\ FirstIdentified = 0
    /\ heap[call.profile].hidden
    /\ call.profile = Settings.allProfiles[FirstNamed]
    /\ \E i \in (FirstNamed + 1)..Len(Settings.allProfiles) :
           heap[Settings.allProfiles[i]].name = call.args.Profile

\* C6: an index in a request selects the profile at that position of the
\* list of active profiles, so the index step never returns a hidden
\* profile; an index at or beyond the size of that list matches nothing and
\* the later steps decide.
C6_IndexSelectsActive ==
    Resolved /\ call.args.present /\ call.args.ProfileIndex # <<>>
        /\ call.step # "name" =>
            LET index == call.args.ProfileIndex[1]
            IN /\ index \in 0..(Len(Settings.activeProfiles) - 1) =>
                      call.step = "index"
               /\ call.step = "index" =>
                      /\ call.profile = Settings.activeProfiles[index + 1]
                      /\ ~heap[call.profile].hidden
               /\ index >= Len(Settings.activeProfiles) =>
                      call.step # "index"

\* C7: a request with an index outside the list of active profiles, too
\* large or negative, and with no name and no command line, raises no error
\* and gets the default profile.
C7_OutOfBoundsIndex ==
    Resolved /\ call.args.present /\ call.args.Profile = ""
        /\ call.args.Commandline = <<>> /\ call.args.ProfileIndex # <<>>
        /\ (call.args.ProfileIndex[1] < 0
               \/ call.args.ProfileIndex[1] >= Len(Settings.activeProfiles)) =>
            /\ call.step # "threw"
            /\ IsDefaultProfile(call.profile)

\* The command-line step ran, and it returned a profile or no match.
CommandlineStepRan ==
    /\ Resolved
    /\ call.args.present
    /\ call.args.Commandline # <<>>
    /\ call.step \in {"commandline", "fallback"}

Needle == Normalized[call.args.Commandline]

\* The profiles of the container that declare a command line.
Declaring == {p \in AllProfiles : Commandline(heap, p) # <<>>}

NormalizedOf(p) == Normalized[Commandline(heap, p)]

\* The reference: the profiles whose normalized command line is a prefix of
\* the normalized request, and the longest of them.
Matching ==
    {p \in Declaring : /\ NormalizedOf(p) # NormalizeThrew
                       /\ starts_with(Needle, NormalizedOf(p))}

LongestMatching ==
    {p \in Matching :
        \A q \in Matching : Len(NormalizedOf(q)) <= Len(NormalizedOf(p))}

AgreesWithReference ==
    IF Matching = {}
    THEN call.step = "fallback"
    ELSE call.step = "commandline" /\ call.profile \in LongestMatching

\* The cache of the container is the table built from its profiles as they
\* are.
FreshTable ==
    CallOnce(AppendCommandLines(heap, Settings.allProfiles, <<>>))

CacheIsFresh ==
    /\ Settings.commandLinesCacheOnce
    /\ FreshTable.once
    /\ Settings.commandLinesCache = FreshTable.cache

\* C8: for the profiles the table was built from and every request command
\* line, the command-line match (sort by descending length, binary search,
\* scan for the first prefix) returns what the reference returns: no match
\* exactly when no profile's normalized command line is a prefix of the
\* normalized request, and otherwise a profile with the longest such prefix.
C8_LongestPrefix ==
    CommandlineStepRan /\ CacheIsFresh => AgreesWithReference

\* The match chose the longer of two matching command lines.
C8_Witness ==
    /\ CommandlineStepRan
    /\ CacheIsFresh
    /\ call.step = "commandline"
    /\ \E q \in Matching : Len(NormalizedOf(q)) < Len(NormalizedOf(call.profile))

\* C9: when the command-line step returns a profile with normalized command
\* line P for a normalized request N, P is N or the character of N right
\* after P is the separator.
C9_TokenBoundary ==
    Resolved /\ call.step = "commandline" =>
        \A i \in 1..Len(Settings.commandLinesCache) :
            LET P == Settings.commandLinesCache[i][1]
            IN Settings.commandLinesCache[i][2] = call.profile
                   /\ starts_with(Needle, P) =>
                       \/ P = Needle
                       \/ Needle[Len(P) + 1] = NUL

\* C10: after the profiles of a container changed (a profile was added, or
\* a command line was changed), every command-line resolution returns what
\* a table freshly built from the profiles as they are would return.
C10_CacheFollowsProfiles ==
    CommandlineStepRan /\ FreshTable.once =>
        LET fresh == SearchCache(FreshTable.cache, Needle)
        IN IF fresh = Null
           THEN call.step = "fallback"
           ELSE call.step = "commandline" /\ call.profile = fresh

\* The call reached the command-line step: no name or index decided it and
\* the index did not throw.
ReachesCommandlineStep(c) ==
    /\ c.op = "GetProfileForArgs"
    /\ c.args.present
    /\ c.args.Commandline # <<>>
    /\ c.step \notin {"name", "index"}
    /\ ~(c.args.ProfileIndex # <<>> /\ NarrowThrows(c.args.ProfileIndex[1]))

\* C12: the command-line cache of a container is built at most once and
\* lazily: a new container (constructed, or made by Copy) has no cache, a
\* cache that is built never changes, only a request that reaches the
\* command-line step touches the cache, and the first such request builds
\* it, from nothing and completely.
C12_BuiltOnceLazily ==
    /\ \A c \in 1..Len(containers) :
           /\ ~containers[c].commandLinesCacheOnce
           /\ containers[c].commandLinesCache = <<>>
    /\ [][/\ \A c \in 1..Len(containers) :
               LET old == containers[c]
                   new == containers'[c]
               IN /\ old.commandLinesCacheOnce =>
                         /\ new.commandLinesCacheOnce
                         /\ new.commandLinesCache = old.commandLinesCache
                  /\ new.commandLinesCache # old.commandLinesCache =>
                         /\ old.commandLinesCache = <<>>
                         /\ new.commandLinesCacheOnce
                         /\ call'.container = c
                         /\ ReachesCommandlineStep(call')
                  /\ call'.container = c /\ ReachesCommandlineStep(call') =>
                         new.commandLinesCacheOnce
          /\ \A c \in (Len(containers) + 1)..Len(containers') :
               /\ ~containers'[c].commandLinesCacheOnce
               /\ containers'[c].commandLinesCache = <<>>]_vars

\* C13: the normalizer raises no error when the executable of a command line
\* cannot be resolved, so GetProfileForArgs with a non-empty command line
\* (and no index) raises none, neither while the cache is built nor while
\* the request is normalized.
C13_NormalizerNeverThrows ==
    Resolved /\ call.args.present /\ call.args.Commandline # <<>>
        /\ call.args.ProfileIndex = <<>> => call.step # "threw"

\* C14: in every state the list of active profiles of every container is
\* its list of all profiles without the hidden ones, in the same order.
C14_ActiveIsAllNotHidden ==
    \A c \in 1..Len(containers) :
        containers[c].activeProfiles =
            SelectSeq(containers[c].allProfiles,
                      LAMBDA p : ~heap[p].hidden)

\* The nodes of the graph of a container: profiles.defaults, the listed
\* profiles and all their ancestors.
RECURSIVE Ancestors(_)
Ancestors(p) ==
    {p} \cup UNION {Ancestors(heap[p].parents[i]) :
                        i \in 1..Len(heap[p].parents)}

Graph(settings) ==
    Ancestors(settings.baseLayerProfile)
        \cup UNION {Ancestors(settings.allProfiles[i]) :
                        i \in 1..Len(settings.allProfiles)}

\* The pairs of nodes met when the graphs under p and q are walked together,
\* parent by parent.
RECURSIVE Walk(_, _)
Walk(p, q) ==
    {<<p, q>>}
        \cup UNION {Walk(heap[p].parents[i], heap[q].parents[i]) :
                        i \in DOMAIN heap[p].parents \cap DOMAIN heap[q].parents}

\* The correspondence between the graph of a container and that of another:
\* profiles.defaults to profiles.defaults, listed profile i to listed
\* profile i, and the parents of corresponding nodes in order.
Corresponding(source, copy) ==
    Walk(source.baseLayerProfile, copy.baseLayerProfile)
        \cup UNION {Walk(source.allProfiles[i], copy.allProfiles[i]) :
                        i \in DOMAIN source.allProfiles
                                  \cap DOMAIN copy.allProfiles}

\* A node and its clone differ in their parents only.
SameSettings(p, q) ==
    [heap[p] EXCEPT !.parents = <<>>] = [heap[q] EXCEPT !.parents = <<>>]

CopySource == containers[call.container]

TheCopy == containers[Len(containers)]

\* C15: Copy makes a graph isomorphic to the source's: the lists of all
\* profiles have the same length and correspond position by position, every
\* node of the source's graph has exactly one clone (a shared parent, and
\* profiles.defaults among them, is one node of the copy), the parents of a
\* clone are the clones of the parents in the same order, and nothing but
\* the graph is cloned.
C15_CopyIsIsomorphic ==
    call.op = "Copy" =>
        LET pairs == Corresponding(CopySource, TheCopy)
        IN /\ Len(TheCopy.allProfiles) = Len(CopySource.allProfiles)
           /\ \A pq \in pairs :
                 /\ SameSettings(pq[1], pq[2])
                 /\ Len(heap[pq[1]].parents) = Len(heap[pq[2]].parents)
           /\ \A pq \in pairs, rs \in pairs : (pq[1] = rs[1]) <=> (pq[2] = rs[2])
           /\ {pq[1] : pq \in pairs} = Graph(CopySource)
           /\ {pq[2] : pq \in pairs} = Graph(TheCopy)
           /\ Graph(TheCopy) \cap Graph(CopySource) = {}
           /\ UNION {Graph(containers[c]) : c \in 1..Len(containers)}
                  = 1..Len(heap)

\* A container with two listed profiles was copied, one of them with two
\* parents, an inbox profile and profiles.defaults, the other a child of
\* profiles.defaults too.
C15_Witness ==
    /\ call.op = "Copy"
    /\ Len(CopySource.allProfiles) = 2
    /\ \E i \in 1..2 : Len(heap[CopySource.allProfiles[i]].parents) = 2
    /\ Cardinality(Graph(TheCopy)) = 4

(***************************************************************************)
(* The properties of copies and of validation, under SpecValidate.         *)
(***************************************************************************)
\* What a container consists of stays as it is in a step: its lists, its
\* warnings and every node of its graph.
Untouched(d) ==
    /\ containers'[d].baseLayerProfile = containers[d].baseLayerProfile
    /\ containers'[d].allProfiles = containers[d].allProfiles
    /\ containers'[d].activeProfiles = containers[d].activeProfiles
    /\ containers'[d].warnings = containers[d].warnings
    /\ \A p \in Graph(containers[d]) : heap'[p] = heap[p]

\* C16: a copy shares nothing mutable with its source: an operation on a
\* container (CreateNewProfile, DuplicateProfile, validation,
\* UpdateColorSchemeReferences) leaves the lists, the warnings and the
\* profiles of every other container unchanged, and Copy leaves those of
\* its source unchanged as well.
C16_CopyIsIndependent ==
    [][call'.op # "idle" =>
          \A d \in 1..Len(containers) :
              (d # call'.container \/ call'.op = "Copy") => Untouched(d)]_vars

\* The copy of a container was validated: its profile's scheme was cleared
\* and it has warnings, the source has its scheme and no warning.
C16_Witness ==
    /\ Len(containers) = 2
    /\ call.op = "_validateSettings"
    /\ call.container = 2
    /\ containers[1].warnings = <<>>
    /\ containers[2].warnings # <<>>
    /\ heap[containers[1].allProfiles[1]].colorSchemeName = <<"Foo">>
    /\ heap[containers[2].allProfiles[1]].colorSchemeName = <<>>
    /\ Graph(containers[1]) \cap Graph(containers[2]) = {}

\* The container c as _validateSettings leaves it, and the heap with it.
Validated(h, settings) ==
    [heap |-> _validateSettings(h, settings).heap,
     settings |-> [settings EXCEPT
                      !.warnings = _validateSettings(h, settings).warnings]]

\* C17: validation is idempotent: on every container, validating once
\* more after a validation appends no warning and changes no setting of
\* a profile.
C17_ValidationIsIdempotent ==
    \A c \in 1..Len(containers) :
        LET once == Validated(heap, containers[c])
            twice == Validated(once.heap, once.settings)
        IN /\ twice.settings.warnings = once.settings.warnings
           /\ twice.heap = once.heap

\* The container the last operation acted on, and its color schemes.
Acted == containers[call.container]

ColorSchemes == Acted.globals.colorSchemes

\* The scheme name the default appearance of p resolves to, <<>> when
\* neither p nor a node it inherits from sets one.
DefaultSchemeOf(p) == Resolve(heap, p, "colorSchemeName")

\* The same of the unfocused appearance p uses.
UnfocusedSchemeOf(p) ==
    LET u == UnfocusedAppearance(heap, p)
    IN IF u = Null THEN <<>>
       ELSE IF heap[u].unfocusedAppearance[1].colorSchemeName # <<>>
       THEN heap[u].unfocusedAppearance[1].colorSchemeName
       ELSE DefaultSchemeOf(u)

Known(scheme) == scheme = <<>> \/ scheme[1] \in ColorSchemes

\* C18: after validation no listed profile refers to a color scheme that
\* does not exist: the scheme its default appearance and the scheme its
\* unfocused appearance resolve to are unset or the name of a scheme.
C18_NoUnknownSchemeLeft ==
    call.op = "_validateSettings" =>
        \A p \in SeqRange(Acted.allProfiles) :
            Known(DefaultSchemeOf(p)) /\ Known(UnfocusedSchemeOf(p))

\* The container a step validates, before the step, and its profiles.
ToValidate == containers[call'.container]

ListedToValidate == SeqRange(ToValidate.allProfiles)

\* The warnings a validation step appends.
Appended ==
    SubSeq(containers'[call'.container].warnings,
           Len(ToValidate.warnings) + 1,
           Len(containers'[call'.container].warnings))

\* How many of the appended warnings are the warning w.
Count(w) == Cardinality({i \in 1..Len(Appended) : Appended[i] = w})

\* 1 when the problem was there, 0 when it was not.
OnceIf(problem) == IF problem THEN 1 ELSE 0

\* Before the step: an appearance of a listed profile names a scheme that
\* is missing.
NamesMissingScheme ==
    \E p \in ListedToValidate :
        \/ ColorSchemeName(heap, p) \notin ToValidate.globals.colorSchemes
        \/ /\ UnfocusedAppearance(heap, p) # Null
           /\ UnfocusedColorSchemeName(heap, UnfocusedAppearance(heap, p))
                  \notin ToValidate.globals.colorSchemes

\* Before the step: a background image of a listed profile is set and is
\* no resource locator.
HasInvalidBackground ==
    \E p \in ListedToValidate :
        \/ LET path == ExpandEnvironmentStringsW(BackgroundImagePath(heap, p))
           IN path # <<>> /\ ~UriParses(path)
        \/ /\ UnfocusedAppearance(heap, p) # Null
           /\ LET path == ExpandEnvironmentStringsW(
                              UnfocusedBackgroundImagePath(heap,
                                  UnfocusedAppearance(heap, p)))
              IN path # <<>> /\ ~UriParses(path)

\* Before the step: the icon of a listed profile is longer than two code
\* units and is no resource locator.
HasInvalidIcon ==
    \E p \in ListedToValidate :
        /\ Len(Icon(heap, p)) > 2
        /\ ~UriParses(ExpandEnvironmentStringsW(Icon(heap, p)))

\* The setColorScheme commands of a command and of the commands nested in
\* it that are not iterated on the color schemes.
RECURSIVE SchemeCommands(_)
SchemeCommands(command) ==
    IF command.nestedCommands # <<>>
    THEN UNION {SchemeCommands(command.nestedCommands[i]) :
                   i \in 1..Len(command.nestedCommands)}
    ELSE IF /\ command.setColorSchemeArgs # <<>>
            /\ command.iterateOn # IterateOnColorSchemes
    THEN {command}
    ELSE {}

\* The commands of a container that name a scheme that is missing.
InvalidCommands(settings) ==
    {command \in UNION {SchemeCommands(settings.globals.commands[i]) :
                           i \in 1..Len(settings.globals.commands)} :
        command.setColorSchemeArgs[1] \notin settings.globals.colorSchemes}

\* C19: one validation run records each repair category once: it appends
\* exactly one UnknownColorScheme when an appearance of a listed profile
\* named a missing scheme and none otherwise, and likewise one
\* InvalidBackgroundImage, one InvalidIcon and one InvalidColorSchemeInCmd,
\* however many profiles or commands had the problem.
C19_OneWarningPerCategory ==
    [][call'.op = "_validateSettings" =>
          /\ Count(UnknownColorScheme) = OnceIf(NamesMissingScheme)
          /\ Count(InvalidBackgroundImage) = OnceIf(HasInvalidBackground)
          /\ Count(InvalidIcon) = OnceIf(HasInvalidIcon)
          /\ Count(InvalidColorSchemeInCmd) =
                 OnceIf(InvalidCommands(ToValidate) # {})]_vars

\* A container with two listed profiles that both name a missing scheme
\* was validated once and has one UnknownColorScheme warning.
C19_Witness ==
    /\ call.op = "_validateSettings"
    /\ Len(Acted.allProfiles) = 2
    /\ \A p \in SeqRange(Acted.allProfiles) : ~Known(DefaultSchemeOf(p))
    /\ Acted.warnings = <<UnknownColorScheme>>

\* An icon or a path that is no resource locator once its environment
\* variables are expanded.
NoLocator(value) == ~UriParses(ExpandEnvironmentStringsW(value))

\* The unfocused appearance of node u, set on u itself.
OwnUnfocused(h, u) == h[u].unfocusedAppearance[1]

\* C20: the media-resource pass clears the icon of a listed profile only
\* when the icon is longer than two code units and is no resource locator,
\* and then it clears the icon the profile sets and records InvalidIcon;
\* an icon of length 0, 1 or 2 is kept and causes no warning.  A background
\* image path, of the default or of the unfocused appearance, that is no
\* resource locator is cleared where it is set and recorded as
\* InvalidBackgroundImage, and no other path is cleared.  InvalidIcon is
\* appended for invalid icons only and InvalidBackgroundImage for invalid
\* background images only.
C20_MediaResources ==
    [][call'.op = "_validateSettings" =>
          /\ \A p \in 1..Len(heap) :
                /\ heap'[p].icon # heap[p].icon =>
                      /\ p \in ListedToValidate
                      /\ Len(heap[p].icon) > 2
                      /\ NoLocator(heap[p].icon)
                /\ heap'[p].backgroundImagePath # heap[p].backgroundImagePath
                      => NoLocator(heap[p].backgroundImagePath)
                /\ heap[p].unfocusedAppearance # <<>> =>
                      /\ heap'[p].unfocusedAppearance # <<>>
                      /\ OwnUnfocused(heap', p).backgroundImagePath
                             # OwnUnfocused(heap, p).backgroundImagePath
                           => NoLocator(OwnUnfocused(heap, p).backgroundImagePath)
          /\ \A p \in ListedToValidate :
                /\ Len(heap[p].icon) > 2 /\ NoLocator(heap[p].icon)
                      => heap'[p].icon = <<>>
                /\ Len(Icon(heap, p)) <= 2 => heap'[p].icon = heap[p].icon
                /\ heap[p].backgroundImagePath # <<>>
                      /\ NoLocator(heap[p].backgroundImagePath)
                      => heap'[p].backgroundImagePath = <<>>
                /\ LET u == UnfocusedAppearance(heap, p)
                   IN (/\ u # Null
                       /\ OwnUnfocused(heap, u).backgroundImagePath # <<>>
                       /\ NoLocator(OwnUnfocused(heap, u).backgroundImagePath))
                      => OwnUnfocused(heap', u).backgroundImagePath = <<>>
          /\ (InvalidIcon \in SeqRange(Appended)) <=> HasInvalidIcon
          /\ (InvalidBackgroundImage \in SeqRange(Appended))
                 <=> HasInvalidBackground]_vars

\* A container was validated whose profiles.defaults sets no icon: a
\* listed profile kept its icon of two code units, the icon of another was
\* cleared, and InvalidIcon is the only warning.
C20_Witness ==
    /\ call.op = "_validateSettings"
    /\ heap[Acted.baseLayerProfile].icon = <<>>
    /\ Acted.warnings = <<InvalidIcon>>
    /\ \E p \in SeqRange(Acted.allProfiles) : heap[p].icon = <<"x", "y">>
    /\ \E p \in SeqRange(Acted.allProfiles) : heap[p].icon = <<>>

(***************************************************************************)
(* The property of concurrent callers, under SpecRace.                     *)
(***************************************************************************)
\* The callers that are past call_once and work with the cache.
Searching ==
    {t \in DOMAIN callers :
        callers[t].pc \in {"normalize", "lower_bound", "scan", "done"}}

\* The profiles of the shared container that declare a command line.
DeclaringShared ==
    {p \in SeqRange(Shared.allProfiles) : Commandline(heap, p) # <<>>}

\* The cache holds one entry for every declaring profile, the profile's
\* normalized command line, and is sorted by descending length.
CompleteAndSorted(cache) ==
    /\ Len(cache) = Cardinality(DeclaringShared)
    /\ {cache[i][2] : i \in 1..Len(cache)} = DeclaringShared
    /\ \A i \in 1..Len(cache) :
          cache[i][1] = Normalized[Commandline(heap, cache[i][2])]
    /\ \A i \in 1..Len(cache), j \in 1..Len(cache) :
          i < j => Len(cache[i][1]) >= Len(cache[j][1])

\* C11: when callers resolve a command line on one container at the same
\* time, the cache is constructed exactly once (at most one caller ever
\* runs the construction, and one did when a caller is past it), a caller
\* that searches finds the construction over and the table complete and
\* sorted, and callers with the same request get the same profile.
C11_SingleFlight ==
    /\ Cardinality({t \in DOMAIN callers : callers[t].ran}) <= 1
    /\ \A t \in Searching :
          /\ \E u \in DOMAIN callers : callers[u].ran
          /\ Shared.commandLinesCacheOnce
          /\ ~Running
          /\ CompleteAndSorted(Shared.commandLinesCache)
    /\ \A t \in DOMAIN callers, u \in DOMAIN callers :
          (/\ callers[t].pc = "done"
           /\ callers[u].pc = "done"
           /\ callers[t].commandLine = callers[u].commandLine)
          => callers[t].profile = callers[u].profile

\* The warnings of the action map's construction, of the container a step
\* validates.
KeybindingsWarnings == ToValidate.globals.keybindingsWarnings

\* The positions of the appended warnings that hold the marker.
Markers == {i \in 1..Len(Appended) : Appended[i] = AtLeastOneKeybindingWarning}

\* The positions of the appended warnings that hold a keybinding warning.
Surfaced ==
    {i \in 1..Len(Appended) :
        Appended[i] \in {TooManyKeysForChord, MissingRequiredParameter}}

\* C21: when the construction of the action map left keybinding warnings,
\* a validation run appends the marker AtLeastOneKeybindingWarning once,
\* and right after it those warnings, all of them and in their order; when
\* it left none, the run appends neither the marker nor a keybinding
\* warning.
C21_KeybindingWarnings ==
    [][call'.op = "_validateSettings" =>
          IF KeybindingsWarnings = <<>>
          THEN Markers = {} /\ Surfaced = {}
          ELSE /\ Cardinality(Markers) = 1
               /\ \A i \in Markers :
                     /\ Surfaced = (i + 1)..(i + Len(KeybindingsWarnings))
                     /\ SubSeq(Appended, i + 1, i + Len(KeybindingsWarnings))
                            = KeybindingsWarnings]_vars

\* A container with two keybinding warnings was validated once: its
\* warnings are the marker and the two warnings, in their order.
C21_Witness ==
    /\ call.op = "_validateSettings"
    /\ Acted.globals.keybindingsWarnings
           = <<TooManyKeysForChord, MissingRequiredParameter>>
    /\ Acted.warnings = <<AtLeastOneKeybindingWarning, TooManyKeysForChord,
                          MissingRequiredParameter>>

\* C22: a validation run records InvalidColorSchemeInCmd exactly when a
\* command of the name map, or a command nested in one at any depth, has
\* a setColorScheme action that names a scheme that is missing and is not
\* iterated on the color schemes; and it changes no command.
C22_CommandSchemes ==
    [][call'.op = "_validateSettings" =>
          /\ (InvalidColorSchemeInCmd \in SeqRange(Appended))
                 <=> InvalidCommands(ToValidate) # {}
          /\ containers'[call'.container].globals = ToValidate.globals]_vars

\* A container was validated whose only command naming a missing scheme
\* is nested in a command nested in a command of the name map:
\* InvalidColorSchemeInCmd is recorded.
C22_Witness ==
    /\ call.op = "_validateSettings"
    /\ Acted.globals.commands =
           <<Nested(<<Leaf(<<>>, IterateOnNone),
                      Nested(<<Leaf(<<"Foo">>, IterateOnNone)>>)>>)>>
    /\ InvalidColorSchemeInCmd \in SeqRange(Acted.warnings)

(***************************************************************************)
(* The default profile, under Spec.                                        *)
(***************************************************************************)
\* The identifier the settings file of a container configures.
Configured(settings) == settings.globals.unparsedDefaultProfile[1]

\* The active profiles of a container that have the identifier guid.
ActiveWith(settings, guid) ==
    {i \in 1..Len(settings.activeProfiles) :
        heap[settings.activeProfiles[i]].guid = guid}

\* C23: the default-profile identifier of a loaded container names a
\* profile of the container: it is the configured identifier when that is
\* the identifier of an active profile and the identifier of the first
\* active profile when it is not, and the fallback of GetProfileForArgs,
\* FindProfile of that identifier, finds a profile.
C23_DefaultProfileResolves ==
    /\ \A c \in 1..Len(containers) :
          /\ FindProfile(heap, containers[c], containers[c].defaultProfile)
                 # Null
          /\ containers[c].defaultProfile =
                 IF ActiveWith(containers[c], Configured(containers[c])) # {}
                 THEN Configured(containers[c])
                 ELSE heap[containers[c].activeProfiles[1]].guid
    /\ (NoStepMatched /\ (~showDefaults \/ NoCommandline)) =>
          /\ call.profile # Null
          /\ heap[call.profile].guid = Settings.defaultProfile

\* The settings file configured a hidden profile as the default; the
\* fallback of a request returned the first active profile, another one.
C23_Witness ==
    /\ NoStepMatched
    /\ ~showDefaults
    /\ \E p \in AllProfiles :
          heap[p].hidden /\ heap[p].guid = Configured(Settings)
    /\ call.profile = Settings.activeProfiles[1]
    /\ heap[call.profile].guid # Configured(Settings)


\* The profiles of a container: its profiles.defaults and the profiles it
\* lists.
ProfilesOf(settings) ==
    {settings.baseLayerProfile} \cup SeqRange(settings.allProfiles)

\* C24: the container the page refers to is never one a reload is still
\* building or validating, and a connection that resolves a profile and
\* creates its terminal settings through the page's reference reads one and
\* the same complete container both times: the profile it resolved is a
\* profile of the container it creates the settings with.
C24_ReadersSeeCompleteContainer ==
    /\ page.settings \in 1..Len(containers)
    /\ page.settings \notin UnderConstruction
    /\ \A t \in DOMAIN page.connections :
         LET connection == page.connections[t]
         IN /\ ~connection.partial
            /\ connection.pc \in {"create", "done"}
                 => connection.profile
                        \in ProfilesOf(containers[connection.resolvedIn])
            /\ connection.pc = "done"
                 => /\ connection.createdWith = connection.resolvedIn
                    /\ connection.profile
                        \in ProfilesOf(containers[connection.createdWith])

\* A connection that arrived on a COM thread has resolved its profile in a
\* reloaded container while the next reload is building another one.
C24_Witness ==
    /\ UnderConstruction # {}
    /\ \E t \in DOMAIN page.connections :
         /\ page.connections[t].pc = "done"
         /\ ~page.connections[t].hasThreadAccess
         /\ page.connections[t].resolvedIn > 1


\* The arguments CommandLineToArgvW splits the request of the call into.
RequestArguments ==
    CommandLineToArgvW(ExpandEnvironmentStringsW(call.args.Commandline))

\* The state the loop that resolves the executable is left in for the
\* request of the call.
LoopLeft ==
    ResolveExecutable(ArgvBuffer(RequestArguments),
                      ArgvPointers(RequestArguments, 1),
                      Len(RequestArguments),
                      ExpandEnvironmentStringsW(call.args.Commandline))

\* The number of arguments the loop merged into the executable.
MergedArguments == Len(RequestArguments) - LoopLeft.argc

\* The arguments, each preceded by the separator.
RECURSIVE Separated(_)
Separated(args) ==
    IF args = <<>> THEN <<>>
    ELSE <<NUL>> \o Head(args) \o Separated(Tail(args))

\* C25: the loop of the normalizer ends after at most as many attempts as
\* the request has arguments, the arguments it merged into the executable
\* are not appended again, and exactly the arguments that are left are
\* appended after the executable, each preceded by the separator.
C25_RemainingTokensAppended ==
    CommandlineStepRan /\ LoopLeft.normalized # NormalizeThrew =>
        /\ MergedArguments \in 0..(Len(RequestArguments) - 1)
        /\ RemainingArguments(LoopLeft.buf, ArgvPointers(RequestArguments, 1),
                              LoopLeft.argc)
             = Separated(SubSeq(RequestArguments, MergedArguments + 2,
                                Len(RequestArguments)))


\* C26: a name of the form of an identifier is tried as an identifier
\* first: when a profile of the list of all profiles has that identifier,
\* it is returned, even when an earlier profile has the string as its name;
\* the string is compared with the names only when no profile has the
\* identifier.
C26_IdentifierBeforeName ==
    Resolved /\ call.args.present /\ LooksLikeGuid(call.args.Profile) =>
        IF \E p \in AllProfiles :
               heap[p].guid = GuidFromString(call.args.Profile)
        THEN /\ call.step = "name"
             /\ call.profile \in AllProfiles
             /\ heap[call.profile].guid = GuidFromString(call.args.Profile)
        ELSE \/ call.step # "name"
             \/ /\ heap[call.profile].name = call.args.Profile
                /\ call.profile = NameLookup(heap, Settings, call.args.Profile)

\* The name step returned the profile with the identifier although an
\* earlier profile has the string as its name.
C26_Witness ==
    /\ Resolved
    /\ call.step = "name"
    /\ LooksLikeGuid(call.args.Profile)
    /\ heap[call.profile].guid = GuidFromString(call.args.Profile)
    /\ heap[call.profile].name # call.args.Profile
    /\ \E i, j \in 1..Len(Settings.allProfiles) :
         /\ i < j
         /\ heap[Settings.allProfiles[i]].name = call.args.Profile
         /\ Settings.allProfiles[j] = call.profile


\* The request of the call has a name that designates no profile.
NameMatchesNothing ==
    /\ Resolved
    /\ call.args.present
    /\ call.args.Profile # ""
    /\ GetProfileByName(heap, Settings, call.args.Profile) = Null

\* C27: a request whose non-empty name matches no profile is decided by
\* the later steps: with an index in the range of the active profiles it
\* returns the active profile at that index, and with no index and a
\* command line that some profile's command line matches it returns a
\* command-line match.
C27_NonMatchingNameGoesOn ==
    NameMatchesNothing =>
        /\ call.args.ProfileIndex # <<>>
             /\ call.args.ProfileIndex[1] \in 0..(Len(Settings.activeProfiles) - 1)
             => /\ call.step = "index"
                /\ call.profile =
                       Settings.activeProfiles[call.args.ProfileIndex[1] + 1]
        /\ call.args.ProfileIndex = <<>>
             /\ call.args.Commandline # <<>>
             /\ Needle # NormalizeThrew
             /\ Matching # {}
             => /\ call.step = "commandline"
                /\ call.profile \in Matching


\* The place of a warning in the order of the passes.
PassOf(w) ==
    CASE w = UnknownColorScheme -> 1
      [] w = InvalidBackgroundImage -> 2
      [] w = InvalidIcon -> 3
      [] w = AtLeastOneKeybindingWarning -> 4
      [] w \in {TooManyKeysForChord, MissingRequiredParameter} -> 5
      [] w = InvalidColorSchemeInCmd -> 6

\* C28: the warnings one validation run appends are in the order of the
\* passes (UnknownColorScheme, InvalidBackgroundImage, InvalidIcon,
\* AtLeastOneKeybindingWarning and the keybinding warnings,
\* InvalidColorSchemeInCmd); the warnings the list held before are kept as
\* they were, in front of them; and the lists of profiles of the container,
\* and the number of profiles there are, stay as they were.
C28_WarningsInPassOrder ==
    [][call'.op = "_validateSettings" =>
          LET after == containers'[call'.container]
          IN /\ Len(after.warnings) >= Len(ToValidate.warnings)
             /\ SubSeq(after.warnings, 1, Len(ToValidate.warnings))
                    = ToValidate.warnings
             /\ \A i, j \in 1..Len(Appended) :
                    i < j => PassOf(Appended[i]) <= PassOf(Appended[j])
             /\ after.allProfiles = ToValidate.allProfiles
             /\ after.activeProfiles = ToValidate.activeProfiles
             /\ Len(heap') = Len(heap)
             /\ Len(containers') = Len(containers)]_vars

\* One validation run recorded a missing scheme, a bad background image, a
\* bad icon and a keybinding warning, in that order.
C28_Witness ==
    /\ call.op = "_validateSettings"
    /\ Acted.warnings = <<UnknownColorScheme, InvalidBackgroundImage,
                          InvalidIcon, AtLeastOneKeybindingWarning,
                          TooManyKeysForChord>>


\* The names of the profiles a container lists are pairwise distinct.
DistinctNames(h, settings) ==
    \A i, j \in 1..Len(settings.allProfiles) :
        i # j => h[settings.allProfiles[i]].name
                     # h[settings.allProfiles[j]].name

\* C29: the name CreateNewProfile and DuplicateProfile give the new profile
\* is the name of no profile the container listed before, so names that
\* were pairwise distinct stay pairwise distinct.
C29_NewNameIsFree ==
    [][call'.op \in {"CreateNewProfile", "DuplicateProfile"} =>
          /\ ~NameTaken(heap, containers[call'.container],
                        heap'[call'.profile].name)
          /\ DistinctNames(heap, containers[call'.container])
                 => DistinctNames(heap', containers'[call'.container])]_vars

\* CreateNewProfile found every candidate but the last one taken, and a
\* duplicate found the first two names of a copy taken.
C29_Witness ==
    /\ call.op \in {"CreateNewProfile", "DuplicateProfile"}
    /\ Len(Acted.allProfiles) = MaxNamed + 1
    /\ heap[call.profile].name
           = IF call.op = "CreateNewProfile"
             THEN "Profile " \o ToString(2 * MaxNamed + 1)
             ELSE "A (" \o CopySuffix \o " 3)"
    /\ DistinctNames(heap, Acted)


\* C30: the profile DuplicateProfile produced is not hidden and is in the
\* list of active profiles of its container, whether its source is hidden
\* or not.
C30_DuplicateIsNotHidden ==
    call.op = "DuplicateProfile" =>
        /\ ~heap[call.profile].hidden
        /\ call.profile \in SeqRange(Acted.activeProfiles)

\* The settings of a profile that the model duplicates.
DuplicatedSettings ==
    {"commandline", "icon", "colorSchemeName", "backgroundImagePath",
     "unfocusedAppearance"}

\* C31: DuplicateProfile sets a setting on the duplicate exactly when the
\* source sets it or inherits it from a node whose origin is not
\* profiles.defaults, and every setting resolves on the duplicate to the
\* value it resolves to on the source.
C31_DuplicateResolvesAsSource ==
    call.op = "DuplicateProfile" =>
        \A setting \in DuplicatedSettings :
            LET inherited == SettingOwnerAmong(heap, heap[call.source].parents,
                                               setting)
            IN /\ (heap[call.profile][setting] # <<>>) <=>
                      (\/ heap[call.source][setting] # <<>>
                       \/ /\ inherited # Null
                          /\ heap[inherited].origin # OriginProfilesDefaults)
               /\ Resolve(heap, call.profile, setting)
                      = Resolve(heap, call.source, setting)

\* A duplicate made of a profile that inherits its icon from an inbox
\* profile although profiles.defaults sets one too, and sets none itself.
C31_Witness ==
    /\ call.op = "DuplicateProfile"
    /\ heap[call.source].icon = <<>>
    /\ heap[BaseLayer].icon # <<>>
    /\ SettingOwner(heap, call.source, "icon") # Null
    /\ heap[SettingOwner(heap, call.source, "icon")].origin = OriginInBox
    /\ heap[call.profile].icon = <<"x", "y">>
    /\ heap[call.profile].parents = <<BaseLayer>>

\* The appearances of node p that name the color scheme explicitly.
NamesScheme(h, p, name) ==
    \/ h[p].colorSchemeName = <<name>>
    \/ /\ h[p].unfocusedAppearance # <<>>
       /\ h[p].unfocusedAppearance[1].colorSchemeName = <<name>>

\* C32: after UpdateColorSchemeReferences(oldName, newName) no default or
\* unfocused appearance of a listed profile or of the base layer names
\* oldName explicitly.
C32_NoReferenceToOldName ==
    call.op = "UpdateColorSchemeReferences" =>
        \A p \in ProfilesOf(containers[call.container]) :
            ~NamesScheme(heap, p, call.oldName)

\* The references UpdateColorSchemeReferences leaves are those of an
\* unfocused appearance of the base layer that no listed profile inherits.
C32_OnlyUnusedBaseAppearanceLeft ==
    call.op = "UpdateColorSchemeReferences" =>
        \A p \in ProfilesOf(containers[call.container]) :
            NamesScheme(heap, p, call.oldName) =>
                /\ p = containers[call.container].baseLayerProfile
                /\ heap[p].colorSchemeName # <<call.oldName>>
                /\ \A q \in SeqRange(containers[call.container].allProfiles) :
                      UnfocusedAppearance(heap, q) # p

\* A rename that left the old name on the base layer's unfocused appearance.
C32_Leftover ==
    /\ call.op = "UpdateColorSchemeReferences"
    /\ NamesScheme(heap, containers[call.container].baseLayerProfile,
                   call.oldName)

\* The first profile of the list of all profiles that is in the set.
FirstListed(profiles) ==
    Settings.allProfiles[
        CHOOSE i \in 1..Len(Settings.allProfiles) :
            /\ Settings.allProfiles[i] \in profiles
            /\ \A j \in 1..(i - 1) : Settings.allProfiles[j] \notin profiles]

\* C33: when two or more profiles have the normalized command line that is
\* the longest prefix of the normalized request, the command-line step
\* returns the one that comes first in the list of all profiles.
C33_FirstOfEqualCommandLines ==
    CommandlineStepRan /\ Cardinality(LongestMatching) >= 2 =>
        /\ call.step = "commandline"
        /\ call.profile = FirstListed(LongestMatching)

\* The same for the calls whose table is the one built from the profiles
\* as they are.
C33_FirstOfEqualWhenFresh ==
    CommandlineStepRan /\ CacheIsFresh /\ Cardinality(LongestMatching) >= 2 =>
        /\ call.step = "commandline"
        /\ call.profile = FirstListed(LongestMatching)

\* Two profiles tie, and the one returned is listed before the other.
C33_TieReached ==
    /\ CommandlineStepRan
    /\ CacheIsFresh
    /\ call.step = "commandline"
    /\ \E i, j \in 1..Len(Settings.allProfiles) :
          /\ i < j
          /\ Settings.allProfiles[i] = call.profile
          /\ Settings.allProfiles[j] \in LongestMatching
          /\ heap[Settings.allProfiles[j]].commandline # <<>>

\* The call returned a profile: it did not throw and did not return null.
ReturnedProfile == Resolved /\ call.profile \notin {Null, Threw}

\* C34: the container Copy returns has an empty command-line cache that is
\* not built, whether the cache of the source was built or not, and a
\* profile GetProfileForArgs returns from a container is a listed profile
\* or the base layer of that container and of no other container.
C34_CopyResolvesToOwnProfiles ==
    /\ call.op = "Copy" =>
           /\ ~containers[Len(containers)].commandLinesCacheOnce
           /\ containers[Len(containers)].commandLinesCache = <<>>
    /\ ReturnedProfile =>
           /\ call.profile \in ProfilesOf(Settings)
           /\ \A c \in 1..Len(containers) :
                 c # call.container =>
                     call.profile \notin ProfilesOf(containers[c])

\* The copy of a container whose cache was built resolved a command line
\* to one of its profiles.
C34_Witness ==
    /\ ReturnedProfile
    /\ call.container = 2
    /\ call.step = "commandline"
    /\ containers[1].commandLinesCacheOnce
    /\ containers[1].commandLinesCache # <<>>
    /\ call.profile \in SeqRange(Settings.allProfiles)

\* The place of a startup state in the order of the states.
Rank(state) ==
    CASE state = NotInitialized -> 0
      [] state = InStartup -> 1
      [] state = Initialized -> 2

\* The coroutines that process the initial startup actions.
InitialStartups(p) == {k \in 1..Len(p.startups) : p.startups[k].initial}

\* C35: the startup state stays or moves to the next state, never back; the
\* processing of the initial startup actions is started at most once however
\* often the layout event fires; the state becomes Initialized in a step
\* after which all initial startup actions are dispatched; GetWindowLayout
\* returns a layout exactly in the state Initialized.
C35_StartupMovesForward ==
    [][/\ Rank(page'.startupState) - Rank(page.startupState) \in {0, 1}
       /\ Cardinality(InitialStartups(page')) <= 1
       /\ (page'.startupState = Initialized /\ page.startupState # Initialized)
              => \E k \in InitialStartups(page') :
                    /\ page'.startups[k].pc = "done"
                    /\ page'.startups[k].actions = page'.startupActions
                    /\ page'.dispatched = page'.startupActions
       /\ page'.last.op = "GetWindowLayout"
              => (page'.last.result = "layout"
                     <=> page.startupState = Initialized)
      ]_vars

\* The layout event fired more than once, the startup actions were
\* dispatched, and GetWindowLayout returned a layout.
C35_Witness ==
    /\ page.startupState = Initialized
    /\ page.layouts = MaxLayouts
    /\ page.dispatched = MaxActions
    /\ page.last = Did("GetWindowLayout", FALSE, "layout")

\* The number of starts of the listener in a step.
ListenerStarts == page'.listenerStarts - page.listenerStarts

\* The page without what a start of the listener and the call that asks for
\* it set.
BesidesListener(p) ==
    [p EXCEPT !.last = Did("", FALSE, ""),
              !.listenerCalls = 0,
              !.listenerStarts = 0,
              !.shouldStartInboundListener = FALSE]

Displayed(p) == {k \in 1..Len(p.closers) : p.closers[k].pc = "dialog"}

\* C37: with more than one tab and confirm-close-all-tabs, a step of
\* CloseWindow(bypassDialog = false) removes the tabs only when it is the
\* close dialog being confirmed with the primary button; at most one close
\* or quit dialog is displayed; the quit-requested event is raised only by
\* the quit dialog being confirmed.
C37_CloseOnlyWhenConfirmed ==
    [][/\ (/\ page'.tabs < page.tabs
           /\ _HasMultipleTabs(page)
           /\ page.confirmCloseAllTabs
           /\ page'.last.op = "CloseWindow"
           /\ ~page'.last.bypassDialog)
              => page'.last.result = "Primary"
       /\ Cardinality(Displayed(page')) <= 1
       /\ page'.quitRequested > page.quitRequested
              => page'.last = Did("RequestQuit", FALSE, "Primary")
      ]_vars

\* The same without the CloseWindow calls made while a dialog is displayed.
C37_CloseOnlyWhenConfirmedOrDisplaying ==
    [][/\ (/\ page'.tabs < page.tabs
           /\ _HasMultipleTabs(page)
           /\ page.confirmCloseAllTabs
           /\ page'.last.op = "CloseWindow"
           /\ ~page'.last.bypassDialog)
              => \/ page'.last.result = "Primary"
                 \/ page.displayingCloseDialog /\ page'.last.result = ""
       /\ Cardinality(Displayed(page')) <= 1
       /\ page'.quitRequested > page.quitRequested
              => page'.last = Did("RequestQuit", FALSE, "Primary")
      ]_vars

\* What holds of the connections in every state: the body of
\* _OnNewConnection runs at most once and, for a call that was queued, with
\* the UI thread; a caller on another thread has not returned before the run
\* ended, returns what the run returned, and the latch is counted down
\* whenever the run has ended, in success and in failure.
RunsOnceAndReturnsItsResult ==
    \A t \in DOMAIN page.connections :
        LET connection == page.connections[t]
            ended == connection.pc \in {"done", "failed"}
        IN /\ connection.runs <= 1
           /\ connection.pc \in {"resolve", "create"} \/ ended
                  => connection.runs = 1
           /\ ~connection.hasThreadAccess =>
                 /\ connection.pc \in {"resolve", "create"} => page.ui = t
                 /\ connection.returned # <<>> =>
                        /\ ended
                        /\ connection.returned =
                               <<IF connection.pc = "done" THEN S_OK
                                 ELSE E_FAIL>>
                 /\ ended => connection.latch = <<0>>

\* C38: a call of _OnNewConnection from another thread than the UI thread
\* runs its body exactly once, on the UI thread; the caller returns only
\* after the run and with its result; and every call that was queued to the
\* dispatcher returns in the end, also when the resolution or the creation
\* of the tab fails.
C38_CallerReturnsResultOfTheRun ==
    /\ []RunsOnceAndReturnsItsResult
    /\ \A t \in 1..MaxConnections :
         page.connections[t].pc = "queued"
             ~> page.connections[t].returned # <<>>

\* A caller on a COM thread returned the failure of a resolution that
\* threw on the UI thread.
C38_Witness ==
    \E t \in DOMAIN page.connections :
        /\ ~page.connections[t].hasThreadAccess
        /\ page.connections[t].profile = Threw
        /\ page.connections[t].latch = <<0>>
        /\ page.connections[t].returned = <<E_FAIL>>

=============================================================================
